---- MODULE Spec2Model ----
(***************************************************************************)
(* Carolina Theatre scraper: the showtime normaliser (format_datetime),    *)
(* the ingestion pipeline (fetch_movie_showtimes, get_movie_showtimes,     *)
(* save_to_database on the showtimes table), the date-ordered query of the *)
(* generators (get_showtimes_from_database), the generators themselves     *)
(* (generate_json, generate_html with its grouping, filtering and ids),    *)
(* and the script of the generated page (allShowtimes, showOtherTimes).    *)
(*                                                                         *)
(* Text is modelled as a sequence of one-character strings, so that strip, *)
(* split, lower, the regular expressions, strftime and the byte order of   *)
(* ORDER BY are computed character by character.                           *)
(***************************************************************************)
EXTENDS Integers, Sequences, FiniteSets, TLC

VARIABLES
    clock,            \* index into ClockDates: the day datetime.now() reports
    pc,               \* position of the pipeline run
    results,          \* per movie: whether its fetch is done, and the list it returned
    batch,            \* showtimes list built by get_movie_showtimes
    store,            \* rows of table showtimes, in rowid order
    inserted_count,   \* save_to_database's counter of the last call
    skipped_count,    \* save_to_database's counter of the last call
    showtimes_data,   \* list returned by the last get_showtimes_from_database
    date_in,          \* normaliser harness: date_str argument
    time_in,          \* normaliser harness: time_str argument
    today_in,         \* normaliser harness: the day datetime.now() reports
    outcome,          \* normaliser harness: what the call did
    cstore,           \* concurrent runs: committed rows of table showtimes
    wlock,            \* concurrent runs: connection holding the write lock, 0 if none
    cpc,              \* concurrent runs: position of each save_to_database call
    cbatch,           \* concurrent runs: the showtimes argument of each call
    cidx,             \* concurrent runs: loop index of each call
    pending,          \* concurrent runs: rows of each call's open transaction
    ccounts,          \* concurrent runs: [ins, skip] counters of each call
    completed,        \* movies in the order in which their fetches completed
    out_env,          \* generators: condition of the output path in the file system
    html_ret,         \* what the last generate_html call did and the page it built
    html_prev,        \* html_ret of the generate_html call before the last one
    html_file,        \* the file at generate_html's output path
    json_ret,         \* what the last generate_json call did
    json_file,        \* the file at generate_json's output path
    document,         \* the movie elements of the page the browser has loaded
    allShowtimes,     \* the page script's allShowtimes: title -> list of showtimes
    dialog            \* the "other times" dialog and the arguments of the last call

vars == <<clock, pc, results, batch, store, inserted_count, skipped_count,
          showtimes_data, date_in, time_in, today_in, outcome,
          cstore, wlock, cpc, cbatch, cidx, pending, ccounts,
          completed, out_env, html_ret, html_prev, html_file, json_ret, json_file,
          document, allShowtimes, dialog>>

pipeVars == <<clock, pc, results, batch, store, inserted_count, skipped_count,
              showtimes_data, completed>>
normVars == <<date_in, time_in, today_in, outcome>>
concVars == <<cstore, wlock, cpc, cbatch, cidx, pending, ccounts>>
genVars == <<out_env, html_ret, html_prev, html_file, json_ret, json_file>>
clientVars == <<document, allShowtimes, dialog>>

(***************************************************************************)
(* Text                                                                    *)
(***************************************************************************)

\* ord(c) of the characters in use
OrdMap ==
    (" " :> 32) @@ ("!" :> 33) @@ ("_" :> 95) @@ ("|" :> 124) @@ ("(" :> 40) @@ (")" :> 41) @@ ("," :> 44) @@ ("-" :> 45) @@ ("." :> 46) @@
    ("/" :> 47) @@ ("0" :> 48) @@ ("1" :> 49) @@ ("2" :> 50) @@ ("3" :> 51) @@ ("4" :> 52) @@
    ("5" :> 53) @@ ("6" :> 54) @@ ("7" :> 55) @@ ("8" :> 56) @@ ("9" :> 57) @@ (":" :> 58) @@
    ("A" :> 65) @@ ("B" :> 66) @@ ("C" :> 67) @@ ("D" :> 68) @@ ("E" :> 69) @@ ("F" :> 70) @@
    ("G" :> 71) @@ ("H" :> 72) @@ ("I" :> 73) @@ ("J" :> 74) @@ ("K" :> 75) @@ ("L" :> 76) @@
    ("M" :> 77) @@ ("N" :> 78) @@ ("O" :> 79) @@ ("P" :> 80) @@ ("Q" :> 81) @@ ("R" :> 82) @@
    ("S" :> 83) @@ ("T" :> 84) @@ ("U" :> 85) @@ ("V" :> 86) @@ ("W" :> 87) @@ ("X" :> 88) @@
    ("Y" :> 89) @@ ("Z" :> 90) @@ ("a" :> 97) @@ ("b" :> 98) @@ ("c" :> 99) @@ ("d" :> 100) @@
    ("e" :> 101) @@ ("f" :> 102) @@ ("g" :> 103) @@ ("h" :> 104) @@ ("i" :> 105) @@ ("j" :> 106) @@
    ("k" :> 107) @@ ("l" :> 108) @@ ("m" :> 109) @@ ("n" :> 110) @@ ("o" :> 111) @@ ("p" :> 112) @@
    ("q" :> 113) @@ ("r" :> 114) @@ ("s" :> 115) @@ ("t" :> 116) @@ ("u" :> 117) @@ ("v" :> 118) @@
    ("w" :> 119) @@ ("x" :> 120) @@ ("y" :> 121) @@ ("z" :> 122)

\* c.lower() of the upper-case letters
LowerMap ==
    ("A" :> "a") @@ ("B" :> "b") @@ ("C" :> "c") @@ ("D" :> "d") @@ ("E" :> "e") @@ ("F" :> "f") @@
    ("G" :> "g") @@ ("H" :> "h") @@ ("I" :> "i") @@ ("J" :> "j") @@ ("K" :> "k") @@ ("L" :> "l") @@
    ("M" :> "m") @@ ("N" :> "n") @@ ("O" :> "o") @@ ("P" :> "p") @@ ("Q" :> "q") @@ ("R" :> "r") @@
    ("S" :> "s") @@ ("T" :> "t") @@ ("U" :> "u") @@ ("V" :> "v") @@ ("W" :> "w") @@ ("X" :> "x") @@
    ("Y" :> "y") @@ ("Z" :> "z")

\* int(c) of the digits
DigitMap ==
    ("0" :> 0) @@ ("1" :> 1) @@ ("2" :> 2) @@ ("3" :> 3) @@ ("4" :> 4) @@
    ("5" :> 5) @@ ("6" :> 6) @@ ("7" :> 7) @@ ("8" :> 8) @@ ("9" :> 9)

Ord(c) == OrdMap[c]
IsDigit(c) == c \in DOMAIN DigitMap
DigitVal(c) == DigitMap[c]
IsSpace(c) == c = " "
LowerChar(c) == IF c \in DOMAIN LowerMap THEN LowerMap[c] ELSE c

RECURSIVE Lower(_)
\* str.lower()
Lower(s) == IF s = <<>> THEN <<>> ELSE <<LowerChar(Head(s))>> \o Lower(Tail(s))

\* the items of a list
Range(s) == { s[i] : i \in 1..Len(s) }

\* s[a-1:b]: the characters a..b that exist
Slice(s, a, b) ==
    IF a > b \/ a > Len(s) THEN <<>>
    ELSE SubSeq(s, a, IF b > Len(s) THEN Len(s) ELSE b)

RECURSIVE LStrip(_)
LStrip(s) == IF s # <<>> /\ IsSpace(Head(s)) THEN LStrip(Tail(s)) ELSE s

RECURSIVE RStrip(_)
RStrip(s) ==
    IF s # <<>> /\ IsSpace(s[Len(s)]) THEN RStrip(SubSeq(s, 1, Len(s) - 1)) ELSE s

\* str.strip()
Strip(s) == RStrip(LStrip(s))

\* sub occurs in s at position i
MatchAt(s, sub, i) ==
    /\ i >= 1
    /\ i + Len(sub) - 1 <= Len(s)
    /\ \A k \in 1..Len(sub) : s[i + k - 1] = sub[k]

RECURSIVE FindFrom(_, _, _)
FindFrom(s, sub, i) ==
    IF i + Len(sub) - 1 > Len(s) THEN 0
    ELSE IF MatchAt(s, sub, i) THEN i
    ELSE FindFrom(s, sub, i + 1)

\* str.find: the first position of sub in s, 0 when absent
Find(s, sub) == FindFrom(s, sub, 1)

\* `sub in s`
Contains(s, sub) == Find(s, sub) # 0

SplitAt(s, sep, p) ==
    IF p = 0 THEN <<s>>
    ELSE <<Slice(s, 1, p - 1), Slice(s, p + Len(sep), Len(s))>>

\* s.split(sep, 1): one or two pieces
Split1(s, sep) == SplitAt(s, sep, Find(s, sep))

AllDigits(s) == Len(s) > 0 /\ \A i \in 1..Len(s) : IsDigit(s[i])

RECURSIVE ToNat(_)
\* int(s) for a string of digits
ToNat(s) ==
    IF Len(s) = 0 THEN 0
    ELSE 10 * ToNat(SubSeq(s, 1, Len(s) - 1)) + DigitVal(s[Len(s)])

NatStrDigit(n) == <<"0", "1", "2", "3", "4", "5", "6", "7", "8", "9">>[n + 1]

RECURSIVE NatStr(_)
\* str(n)
NatStr(n) ==
    IF n < 10 THEN <<NatStrDigit(n)>>
    ELSE NatStr(n \div 10) \o <<NatStrDigit(n % 10)>>

RECURSIVE PadTo(_, _)
PadTo(t, w) == IF Len(t) >= w THEN t ELSE PadTo(<<"0">> \o t, w)

\* a number formatted to at least w digits with leading zeros (%02d, %Y, %m ...)
ZeroPad(n, w) == PadTo(NatStr(n), w)

RECURSIVE StrLess(_, _)
\* a < b in byte order (SQLite's BINARY collation, Python's str comparison)
StrLess(a, b) ==
    IF Len(b) = 0 THEN FALSE
    ELSE IF Len(a) = 0 THEN TRUE
    ELSE IF a[1] # b[1] THEN Ord(a[1]) < Ord(b[1])
    ELSE StrLess(Tail(a), Tail(b))

StrLeq(a, b) == a = b \/ StrLess(a, b)

(***************************************************************************)
(* Calendar (datetime.date)                                                *)
(***************************************************************************)

Date(y, m, d) == [y |-> y, m |-> m, d |-> d]

IsLeap(y) == (y % 4 = 0 /\ y % 100 # 0) \/ y % 400 = 0

DaysInMonth(y, m) ==
    IF m = 2 THEN (IF IsLeap(y) THEN 29 ELSE 28)
    ELSE IF m \in {4, 6, 9, 11} THEN 30 ELSE 31

\* date(y, m, d) exists
ValidDate(y, m, d) == m \in 1..12 /\ d >= 1 /\ d <= DaysInMonth(y, m)

\* a < b on datetime.date
DateLess(a, b) ==
    \/ a.y < b.y
    \/ a.y = b.y /\ a.m < b.m
    \/ a.y = b.y /\ a.m = b.m /\ a.d < b.d

\* a + timedelta(days=1)
NextDay(a) ==
    IF a.d < DaysInMonth(a.y, a.m) THEN Date(a.y, a.m, a.d + 1)
    ELSE IF a.m < 12 THEN Date(a.y, a.m + 1, 1)
    ELSE Date(a.y + 1, 1, 1)

(***************************************************************************)
(* dateutil.parser.parse, for the texts the theatre pages carry: a date    *)
(* "Mon D, YYYY" and a time "H:MM" or "H:MM am|pm". Any other text raises, *)
(* as parse does for a token it does not know, and so does a field out of  *)
(* range (day 30 of February, hour 25, hour 13 with pm).                   *)
(***************************************************************************)

\* the month names, lower case, and their numbers
MonthMap ==
    (<<"j", "a", "n">> :> 1) @@ (<<"f", "e", "b">> :> 2) @@
    (<<"m", "a", "r">> :> 3) @@ (<<"a", "p", "r">> :> 4) @@
    (<<"m", "a", "y">> :> 5) @@ (<<"j", "u", "n">> :> 6) @@
    (<<"j", "u", "l">> :> 7) @@ (<<"a", "u", "g">> :> 8) @@
    (<<"s", "e", "p">> :> 9) @@ (<<"o", "c", "t">> :> 10) @@
    (<<"n", "o", "v">> :> 11) @@ (<<"d", "e", "c">> :> 12)

IsSep(c) == c = " " \/ c = ","

Emit(cur) == IF cur = <<>> THEN <<>> ELSE <<cur>>

RECURSIVE TokScan(_, _)
TokScan(s, cur) ==
    IF s = <<>> THEN Emit(cur)
    ELSE IF IsSep(Head(s)) THEN Emit(cur) \o TokScan(Tail(s), <<>>)
    ELSE TokScan(Tail(s), Append(cur, Head(s)))

\* the maximal runs of characters between blanks and commas
Tokens(s) == TokScan(s, <<>>)

ParseOk(v) == [tag |-> "ok", val |-> v]
ParseError == [tag |-> "raise", val |-> <<>>]

MakeDate(y, m, d) == IF ValidDate(y, m, d) THEN ParseOk(Date(y, m, d)) ELSE ParseError

MonthDayYear(mon, d, y) ==
    IF mon \in DOMAIN MonthMap THEN MakeDate(y, MonthMap[mon], d) ELSE ParseError

DateFromTokens(t) ==
    IF /\ Len(t) = 3
       /\ AllDigits(t[2]) /\ Len(t[2]) <= 2
       /\ AllDigits(t[3]) /\ Len(t[3]) = 4
    THEN MonthDayYear(Lower(t[1]), ToNat(t[2]), ToNat(t[3]))
    ELSE ParseError

\* parser.parse(text).date()
parser_parse_date(text) == DateFromTokens(Tokens(text))

Time(h, mi) == [h |-> h, mi |-> mi]

IsAmPm(t) == t = <<"a", "m">> \/ t = <<"p", "m">>

\* "H:MM" with the colon at p: one or two digits, a colon, two digits
IsClockAt(t, p) ==
    /\ p \in {2, 3}
    /\ Len(t) = p + 2
    /\ AllDigits(Slice(t, 1, p - 1))
    /\ AllDigits(Slice(t, p + 1, Len(t)))

IsClock(t) == IsClockAt(t, Find(t, <<":">>))
ClockHour(t) == ToNat(Slice(t, 1, Find(t, <<":">>) - 1))
ClockMinute(t) == ToNat(Slice(t, Find(t, <<":">>) + 1, Len(t)))

\* a 12-hour clock read without its two special hours: pm adds 12 to every hour
ClockTimeAlwaysAdds(h, mi, ap) ==
    IF mi > 59 \/ h > 23 THEN ParseError
    ELSE IF ap = <<"p", "m">> THEN (IF h + 12 <= 23 THEN ParseOk(Time(h + 12, mi)) ELSE ParseError)
    ELSE ParseOk(Time(h, mi))

\* the time of hour h, minute mi and meridiem ap ("" for none)
ClockTime(h, mi, ap) ==
    IF mi > 59 THEN ParseError
    ELSE IF ap = <<>> THEN (IF h <= 23 THEN ParseOk(Time(h, mi)) ELSE ParseError)
    ELSE IF h > 12 THEN ParseError
    ELSE IF ap = <<"p", "m">> /\ h < 12 THEN ParseOk(Time(h + 12, mi))
    ELSE IF ap = <<"a", "m">> /\ h = 12 THEN ParseOk(Time(0, mi))
    ELSE ParseOk(Time(h, mi))

TimeFromTokens(t) ==
    IF Len(t) = 1 /\ IsClock(t[1])
    THEN ClockTime(ClockHour(t[1]), ClockMinute(t[1]), <<>>)
    ELSE IF Len(t) = 2 /\ IsClock(t[1]) /\ IsAmPm(t[2])
    THEN ClockTime(ClockHour(t[1]), ClockMinute(t[1]), t[2])
    ELSE ParseError

\* parser.parse(text).time(), text already lower case
parser_parse_time(text) == TimeFromTokens(Tokens(text))

(***************************************************************************)
(* format_datetime (movie_scraper.py)                                      *)
(***************************************************************************)

Return(v) == [tag |-> "return", val |-> v]
Raised == [tag |-> "raise", val |-> <<>>]
\* the early returns of lines 61 and 85
Fallback == [tag |-> "fallback", val |-> <<>>]

\* position i starts "am" or "pm" right after digits, a colon and digits
AmPmAfterClock(s, i) ==
    /\ i + 1 <= Len(s)
    /\ s[i] \in {"a", "p"} /\ s[i + 1] = "m"
    /\ \E c \in 2..(i - 2) :
          /\ s[c] = ":"
          /\ IsDigit(s[c - 1])
          /\ \A k \in (c + 1)..(i - 1) : IsDigit(s[k])

RECURSIVE SpaceBefore(_, _)
SpaceBefore(s, i) ==
    IF i > Len(s) THEN <<>>
    ELSE IF AmPmAfterClock(s, i) THEN <<" ", s[i]>> \o SpaceBefore(s, i + 1)
    ELSE <<s[i]>> \o SpaceBefore(s, i + 1)

\* re.sub(r'(\d+:\d+)([ap]m)', r'\1 \2', s)
time_normalized(s) == SpaceBefore(s, 1)

\* (\d{1,2}):(\d{2}) matches at p with k digits of hour
ClockAt(s, p, k) ==
    /\ p + k + 2 <= Len(s)
    /\ \A j \in p..(p + k - 1) : IsDigit(s[j])
    /\ s[p + k] = ":"
    /\ IsDigit(s[p + k + 1]) /\ IsDigit(s[p + k + 2])

\* ([ap]m)? at the head of rest
AmPmGroup(rest) == IF IsAmPm(Slice(rest, 1, 2)) THEN Slice(rest, 1, 2) ELSE <<>>

\* the groups of the match at p with k digits of hour, \s* skipped
MatchGroups(s, p, k) ==
    [tag |-> "match",
     hour |-> ToNat(Slice(s, p, p + k - 1)),
     minute |-> ToNat(Slice(s, p + k + 1, p + k + 2)),
     ampm |-> AmPmGroup(LStrip(Slice(s, p + k + 3, Len(s))))]

RECURSIVE MatchFrom(_, _)
MatchFrom(s, p) ==
    IF p > Len(s) THEN [tag |-> "none"]
    ELSE IF ClockAt(s, p, 2) THEN MatchGroups(s, p, 2)
    ELSE IF ClockAt(s, p, 1) THEN MatchGroups(s, p, 1)
    ELSE MatchFrom(s, p + 1)

\* re.search(r'(\d{1,2}):(\d{2})\s*([ap]m)?', s): the groups of the leftmost
\* match, the hour taking two digits when it can; tag "none" when no match
time_match(s) == MatchFrom(s, 1)

\* lines 76-80: the 12-hour to 24-hour conversion of the manual parse
manual_hour(hour, ampm) ==
    IF ampm # <<>>
    THEN IF ampm = <<"p", "m">> /\ hour # 12 THEN hour + 12
         ELSE IF ampm = <<"a", "m">> /\ hour = 12 THEN 0
         ELSE hour
    ELSE hour

\* line 82: datetime.strptime(f"{hour:02d}:{minute:02d}", "%H:%M").time()
strptime_HM(hour, minute) ==
    IF hour <= 23 /\ minute <= 59 THEN ParseOk(Time(hour, minute)) ELSE ParseError

\* lines 70-85: the handler of a time parser.parse rejected; the ValueError
\* of strptime is raised inside the handler
manual_time(m) ==
    IF m.tag = "none" THEN Fallback
    ELSE strptime_HM(manual_hour(m.hour, m.ampm), m.minute)

TimeOrManual(parsed, lowered) ==
    IF parsed.tag = "ok" THEN parsed ELSE manual_time(time_match(lowered))

\* lines 63-85: the time of the showing
resolve_time(time_str) ==
    TimeOrManual(parser_parse_time(time_normalized(Lower(time_str))), Lower(time_str))

\* line 44: date_str.split(", ", 1)[1], an IndexError when there is one piece
SecondPiece(parts) == IF Len(parts) < 2 THEN ParseError ELSE ParseOk(parts[2])

\* lines 43-46
date_without_dow(date_str) ==
    IF Contains(date_str, <<",">>)
    THEN SecondPiece(Split1(date_str, <<",", " ">>))
    ELSE ParseOk(date_str)

\* lines 49-52 and 56-57: parser.parse(f"{date_without_dow}, {year}").date()
parse_with_year(dwd, year) == parser_parse_date(dwd \o <<",", " ">> \o NatStr(year))

OrFallback(r) == IF r.tag = "raise" THEN Fallback ELSE r

\* the date of lines 49-52 kept whatever the day is
year_rollover_never(first, dwd, today) ==
    IF first.tag = "raise" THEN Fallback ELSE first

\* lines 54-57: a date in the past is taken to be next year's
year_rollover(first, dwd, today) ==
    IF first.tag = "raise" THEN Fallback
    ELSE IF DateLess(first.val, today)
    THEN OrFallback(parse_with_year(dwd, today.y + 1))
    ELSE first

\* lines 41-61
parse_calendar_date(dwd, today) ==
    IF dwd.tag = "raise" THEN Fallback
    ELSE year_rollover(parse_with_year(dwd.val, today.y), dwd.val, today)

RelativeOrCalendar(date_str, lowered, today) ==
    IF Contains(lowered, <<"t", "o", "d", "a", "y">>) THEN ParseOk(today)
    ELSE IF Contains(lowered, <<"t", "o", "m", "o", "r", "r", "o", "w">>)
    THEN ParseOk(NextDay(today))
    ELSE parse_calendar_date(date_without_dow(date_str), today)

\* lines 32-61: the date of the showing
resolve_date(date_str, today) == RelativeOrCalendar(date_str, Lower(date_str), today)

\* strftime("%Y-%m-%d %H:%M") of datetime.combine(d, t)
strftime(d, t) ==
    ZeroPad(d.y, 4) \o <<"-">> \o ZeroPad(d.m, 2) \o <<"-">> \o ZeroPad(d.d, 2)
        \o <<" ">> \o ZeroPad(t.h, 2) \o <<":">> \o ZeroPad(t.mi, 2)

\* f"{date_str} {time_str}"
raw_fallback(date_str, time_str) == date_str \o <<" ">> \o time_str

\* lines 59-61, 83-91: what the body does with the date and the time it resolved
Combined(ds, ts, d, t) ==
    IF d.tag = "fallback" THEN Return(raw_fallback(ds, ts))
    ELSE IF t.tag = "fallback" THEN Return(raw_fallback(ds, ts))
    ELSE IF t.tag = "raise" THEN Raised
    ELSE Return(strftime(d.val, t.val))

\* lines 28-91, after the strip
Stripped(ds, ts, today) == Combined(ds, ts, resolve_date(ds, today), resolve_time(ts))

\* lines 23-91: the body of the outer try
format_datetime_body(date_str, time_str, today) ==
    IF date_str = <<>> \/ time_str = <<>> THEN Return(<<>>)
    ELSE Stripped(Strip(date_str), Strip(time_str), today)

\* lines 93-95: the outer handler turns whatever the body raises into the raw text
OuterHandler(r, date_str, time_str) ==
    IF r.tag = "raise"
    THEN Return(raw_fallback(Strip(date_str), Strip(time_str)))
    ELSE r

\* format_datetime without the outer handler of lines 93-95
format_datetime_unguarded(date_str, time_str, today) ==
    format_datetime_body(date_str, time_str, today)

\* format_datetime(date_str, time_str), called on the day `today`
format_datetime(date_str, time_str, today) ==
    OuterHandler(format_datetime_body(date_str, time_str, today), date_str, time_str)

(***************************************************************************)
(* Texts found on the theatre's pages                                      *)
(***************************************************************************)

\* "": the page has no such element
Empty == <<>>
\* "Fri, May 30"
DFriMay30 == <<"F", "r", "i", ",", " ", "M", "a", "y", " ", "3", "0">>
\* "Sun, Jun 1"
DSunJun1 == <<"S", "u", "n", ",", " ", "J", "u", "n", " ", "1">>
\* "Jan 1"
DJan1 == <<"J", "a", "n", " ", "1">>
\* "Wed, Dec 31"
DWedDec31 == <<"W", "e", "d", ",", " ", "D", "e", "c", " ", "3", "1">>
\* "Feb 29"
DFeb29 == <<"F", "e", "b", " ", "2", "9">>
\* "Today"
DToday == <<"T", "o", "d", "a", "y">>
\* "Tomorrow"
DTomorrow == <<"T", "o", "m", "o", "r", "r", "o", "w">>
\* "TBA"
DTBA == <<"T", "B", "A">>
\* "Fri,May 30"
DNoBlank == <<"F", "r", "i", ",", "M", "a", "y", " ", "3", "0">>
\* "2:00pm"
T200pm == <<"2", ":", "0", "0", "p", "m">>
\* "2:00 PM"
T200PM == <<"2", ":", "0", "0", " ", "P", "M">>
\* "10:00am"
T1000am == <<"1", "0", ":", "0", "0", "a", "m">>
\* "12:00am"
T1200am == <<"1", "2", ":", "0", "0", "a", "m">>
\* "12:00pm"
T1200pm == <<"1", "2", ":", "0", "0", "p", "m">>
\* "9:20pm"
T920pm == <<"9", ":", "2", "0", "p", "m">>
\* "14:00"
T1400 == <<"1", "4", ":", "0", "0">>
\* "25:00"
T2500 == <<"2", "5", ":", "0", "0">>
\* "13:00pm"
T1300pm == <<"1", "3", ":", "0", "0", "p", "m">>
\* "7:30pm cc"
T730pmcc == <<"7", ":", "3", "0", "p", "m", " ", "c", "c">>

DateTexts ==
    {DFriMay30, DSunJun1, DJan1, DWedDec31, DFeb29,
     DToday, DTomorrow, DTBA, DNoBlank, Empty}
TimeTexts ==
    {T200pm, T200PM, T1000am, T1200am, T1200pm, T920pm,
     T1400, T2500, T1300pm, T730pmcc, DTBA, Empty}

\* days on which the program runs
RefDays == {Date(2025, 5, 28), Date(2025, 6, 1), Date(2025, 12, 31),
            Date(2026, 1, 1), Date(2028, 3, 1)}

(***************************************************************************)
(* The scraper's run (movie_scraper.py)                                    *)
(***************************************************************************)

\* "Dune", "Heat" and the links of their pages
TitleDune == <<"D", "u", "n", "e">>
TitleHeat == <<"H", "e", "a", "t">>
LinkDune == <<"h", "t", "t", "p", ":", "/", "/", "x", "/", "d", "u", "n", "e">>
LinkHeat == <<"h", "t", "t", "p", ":", "/", "/", "x", "/", "h", "e", "a", "t">>

\* what get_movie_links returned
movie_links ==
    << [title |-> TitleDune, link |-> LinkDune],
       [title |-> TitleHeat, link |-> LinkHeat] >>

\* " - "
Dash == <<" ", "-", " ">>
\* "Unknown Cinema"
UnknownCinema == <<"U", "n", "k", "n", "o", "w", "n", " ", "C", "i", "n", "e", "m", "a">>
\* "2:00pm - Cinema One - IMAX"
TT200Imax == <<"2", ":", "0", "0", "p", "m", " ", "-", " ", "C", "i", "n", "e", "m", "a", " ", "O", "n", "e", " ", "-", " ", "I", "M", "A", "X">>
\* "9:20pm - Cinema Two"
TT920Two == <<"9", ":", "2", "0", "p", "m", " ", "-", " ", "C", "i", "n", "e", "m", "a", " ", "T", "w", "o">>

\* one li.showInfo__date element: its .date text and its .time texts
Li(date, times) == [date |-> date, times |-> times]

\* the pages a movie link may serve
Pages ==
    { <<>>,
      << Li(DFriMay30, <<TT200Imax>>) >>,
      << Li(DToday, <<TT920Two, TT920Two>>) >>,
      << Li(DTBA, <<T200pm>>) >> }

\* '9:20pm - Cinema Two' with a second blank after the dash, and with a blank at
\* the end of the element's text
TT920TwoLead == <<"9", ":", "2", "0", "p", "m", " ", "-", " ", " ", "C", "i", "n", "e", "m", "a", " ", "T", "w", "o">>
TT920TwoTrail == <<"9", ":", "2", "0", "p", "m", " ", "-", " ", "C", "i", "n", "e", "m", "a", " ", "T", "w", "o", " ">>

\* pages that list one showing twice, the texts differing in blanks around the cinema
PadPages ==
    { <<>>,
      << Li(DToday, <<TT920Two, TT920TwoLead>>) >>,
      << Li(DToday, <<TT920Two, TT920TwoTrail>>) >> }

\* the days on which the clock is read, in order
ClockDates == << Date(2025, 5, 28), Date(2025, 6, 1) >>

\* datetime.now().date()
Today == ClockDates[clock]

\* the split with the cinema trimmed
time_and_cinema_trimmed(time_theater) ==
    IF Contains(time_theater, Dash)
    THEN <<Split1(time_theater, Dash)[1], Strip(Split1(time_theater, Dash)[2])>>
    ELSE <<time_theater, UnknownCinema>>

\* the text of the element taken whole as the time
time_and_cinema_unsplit(time_theater) == <<time_theater, UnknownCinema>>

\* lines 150-153
time_and_cinema(time_theater) ==
    IF Contains(time_theater, Dash)
    THEN Split1(time_theater, Dash)
    ELSE <<time_theater, UnknownCinema>>

\* the raw texts in place of the value of format_datetime
formatted_datetime_raw(date, time, today) == date \o <<" ">> \o time

\* line 156: the value format_datetime hands to its caller
formatted_datetime(date, time, today) == format_datetime(date, time, today).val

\* lines 156-165: the dict built for one .time element
showtime_entry(movie, date, parts, today) ==
    [title |-> movie.title,
     date |-> date,
     time |-> parts[1],
     formatted_datetime |-> formatted_datetime(date, parts[1], today),
     cinema |-> parts[2],
     link |-> movie.link]

\* `x in xs` for a list
InList(x, xs) == \E i \in 1..Len(xs) : xs[i] = x

RECURSIVE AppendNew(_, _)
\* for x in items: if x not in acc: acc.append(x)
AppendNew(acc, items) ==
    IF Len(items) = 0 THEN acc
    ELSE IF InList(items[1], acc) THEN AppendNew(acc, Tail(items))
    ELSE AppendNew(Append(acc, items[1]), Tail(items))

\* format_datetime reads datetime.now() anew in every call (lines 31-32): the day
\* it reads for an element when `left` more elements are normalised before the day
\* changes from `today` to `later`
NowFor(today, later, left) == IF left > 0 THEN today ELSE later

\* the elements still to be normalised before the day changes, after n more
LeftAfter(left, n) == IF left > n THEN left - n ELSE 0

RECURSIVE TimeEntries(_, _, _, _, _, _)
\* lines 147-165: the dicts of one date element, in document order
TimeEntries(movie, date, times, today, later, left) ==
    IF Len(times) = 0 THEN <<>>
    ELSE <<showtime_entry(movie, date, time_and_cinema(Strip(times[1])),
                          NowFor(today, later, left))>>
         \o TimeEntries(movie, date, Tail(times), today, later, LeftAfter(left, 1))

RECURSIVE PageEntries(_, _, _, _, _)
\* lines 144-165: the dicts of a page in document order
PageEntries(movie, page, today, later, left) ==
    IF Len(page) = 0 THEN <<>>
    ELSE TimeEntries(movie, Strip(page[1].date), page[1].times, today, later, left)
         \o PageEntries(movie, Tail(page), today, later,
                        LeftAfter(left, Len(page[1].times)))

RECURSIVE TimeCount(_)
\* the number of .time elements of a page
TimeCount(page) ==
    IF Len(page) = 0 THEN 0 ELSE Len(page[1].times) + TimeCount(Tail(page))

\* lines 141-170: fetch_movie_showtimes(movie) when the page is served with status
\* 200; the first `left` elements are normalised on the day `today`, the others on
\* the day `later`
fetch_movie_showtimes(movie, page, today, later, left) ==
    AppendNew(<<>>, PageEntries(movie, page, today, later, left))

RECURSIVE AppendLatest(_, _)
\* a merge by natural key in which a later record takes the place of an earlier one
AppendLatest(acc, items) ==
    IF Len(items) = 0 THEN acc
    ELSE AppendLatest(Append(SelectSeq(acc, LAMBDA r :
                                 <<r.title, r.date, r.time, r.cinema, r.link>>
                                   # <<items[1].title, items[1].date, items[1].time,
                                        items[1].cinema, items[1].link>>),
                             items[1]),
                      Tail(items))

RECURSIVE MergeLatest(_, _)
MergeLatest(acc, rs) ==
    IF Len(rs) = 0 THEN acc
    ELSE MergeLatest(AppendLatest(acc, rs[1]), Tail(rs))

RECURSIVE MergeResults(_, _)
\* lines 279-286: the results in the order of movie_links, merged with `not in`
MergeResults(acc, rs) ==
    IF Len(rs) = 0 THEN acc
    ELSE MergeResults(AppendNew(acc, rs[1]), Tail(rs))

get_movie_showtimes(rs) == MergeResults(<<>>, rs)

(***************************************************************************)
(* Table showtimes (create_database, save_to_database)                     *)
(***************************************************************************)

\* UNIQUE(title, date, time, cinema, link)
NaturalKey(r) == <<r.title, r.date, r.time, r.cinema, r.link>>

\* a uniqueness constraint that also spans formatted_datetime
KeyAndTimestampPresent(rows, showtime) ==
    \E i \in 1..Len(rows) :
        /\ <<rows[i].title, rows[i].date, rows[i].time, rows[i].cinema, rows[i].link>>
             = <<showtime.title, showtime.date, showtime.time, showtime.cinema, showtime.link>>
        /\ rows[i].formatted_datetime = showtime.formatted_datetime

KeyPresent(rows, showtime) ==
    \E i \in 1..Len(rows) : NaturalKey(rows[i]) = NaturalKey(showtime)

\* the row an INSERT writes: the six values and created_at DEFAULT CURRENT_TIMESTAMP
NewRow(showtime, now) ==
    [title |-> showtime.title,
     date |-> showtime.date,
     time |-> showtime.time,
     formatted_datetime |-> showtime.formatted_datetime,
     cinema |-> showtime.cinema,
     link |-> showtime.link,
     created_at |-> now]

\* a plain INSERT INTO a table without the constraint
InsertAlways(rows, showtime, now) == Append(rows, NewRow(showtime, now))

\* INSERT OR REPLACE: the row holding the key is deleted and a new one written
InsertOrReplace(rows, showtime, now) ==
    Append(SelectSeq(rows, LAMBDA r : <<r.title, r.date, r.time, r.cinema, r.link>>
                       # <<showtime.title, showtime.date, showtime.time,
                            showtime.cinema, showtime.link>>),
           NewRow(showtime, now))

\* INSERT OR IGNORE INTO showtimes ...: the table after the statement
InsertOrIgnore(rows, showtime, now) ==
    IF KeyPresent(rows, showtime) THEN rows
    ELSE Append(rows, NewRow(showtime, now))

RECURSIVE SaveLoop(_, _, _, _, _)
\* every statement counted as an insert
CountedInserted(before, after, rest, now, ins, skip) ==
    SaveLoop(after, rest, now, ins + 1, skip)

\* lines 219-222: cursor.rowcount decides which counter moves
Counted(before, after, rest, now, ins, skip) ==
    IF Len(after) - Len(before) > 0
    THEN SaveLoop(after, rest, now, ins + 1, skip)
    ELSE SaveLoop(after, rest, now, ins, skip + 1)

\* lines 204-222: the loop over showtimes with its two counters
SaveLoop(rows, showtimes, now, ins, skip) ==
    IF Len(showtimes) = 0
    THEN [rows |-> rows, inserted |-> ins, skipped |-> skip]
    ELSE Counted(rows, InsertOrIgnore(rows, showtimes[1], now), Tail(showtimes),
                 now, ins, skip)

\* save_to_database(showtimes) on the table `rows`
save_to_database(rows, showtimes, now) == SaveLoop(rows, showtimes, now, 0, 0)

(***************************************************************************)
(* The query of the generators (json_generator.py, site_generator.py)      *)
(***************************************************************************)

\* SQL NULL in a text column: no text has an element of several characters
NULL == <<"NULL">>

\* ORDER BY formatted_datetime: the order of two column values
OrderBefore(a, b) == StrLeq(a, b)

\* the rowids of the rows WHERE formatted_datetime IS NOT NULL
Selected(rows) == {i \in 1..Len(rows) : rows[i].formatted_datetime # NULL}

\* the lists of the n rows `sel` that are in the order ORDER BY asks for
Ordered(rows, sel, n) ==
    { [k \in 1..n |-> rows[f[k]]] :
        f \in { g \in [1..n -> sel] :
                  /\ \A a, b \in 1..n : a # b => g[a] # g[b]
                  /\ \A a \in 1..(n - 1) :
                        OrderBefore(rows[g[a]].formatted_datetime,
                                    rows[g[a + 1]].formatted_datetime) } }

Fetchall(rows, sel) == Ordered(rows, sel, Cardinality(sel))

\* cursor.fetchall() of SELECT ... WHERE formatted_datetime IS NOT NULL ORDER BY
\* formatted_datetime: every order of the selected rows that ORDER BY allows
\* (SQL leaves the order of rows with equal sort values open)
QueryResults(rows) == Fetchall(rows, Selected(rows))

\* json_generator lines 26-37: a fetched tuple as a dict
RowDict(row) ==
    [title |-> row.title,
     date |-> row.date,
     time |-> row.time,
     formatted_datetime |-> row.formatted_datetime,
     cinema |-> row.cinema,
     link |-> row.link]

RECURSIVE RowDicts(_)
RowDicts(res) == IF Len(res) = 0 THEN <<>> ELSE <<RowDict(res[1])>> \o RowDicts(Tail(res))

\* get_showtimes_from_database(): the lists it may return
get_showtimes_from_database(rows) == { RowDicts(res) : res \in QueryResults(rows) }

(***************************************************************************)
(* The pipeline: runs of the scraper, each followed by the JSON generator, *)
(* on days that advance                                                    *)
(***************************************************************************)

\* rows the table may hold in the model
MaxRows == 2

Movie == 1..Len(movie_links)
\* the future of one fetch: not done, done with the list returned, done with the
\* exception raised
Pending == [done |-> FALSE, value |-> <<>>, raised |-> FALSE]
Done(v) == [done |-> TRUE, value |-> v, raised |-> FALSE]
Failed == [done |-> TRUE, value |-> <<>>, raised |-> TRUE]
NotCalled == [tag |-> "none", val |-> <<>>]

\* what requests.get does for a movie link: it raises (no connection, timeout), or
\* it hands back a response with a status code and a body
Served(page) == [raises |-> FALSE, status_code |-> 200, page |-> page]
NotFound == [raises |-> FALSE, status_code |-> 404, page |-> <<>>]
ConnectionError == [raises |-> TRUE, status_code |-> 0, page |-> <<>>]
Responses == { Served(page) : page \in Pages } \cup {NotFound, ConnectionError}

\* the worker's call fetch_movie_showtimes(movie), lines 137-170, as the future holds it
fetch_result(movie, response, today, later, left) ==
    IF response.raises THEN Failed
    ELSE IF response.status_code # 200 THEN Done(<<>>)
    ELSE Done(fetch_movie_showtimes(movie, response.page, today, later, left))

\* the output path is usable, no generator has run, there is no output file
Writable == "writable"
NotRun == [tag |-> "none", val |-> FALSE, page |-> <<>>]
NoFile == [exists |-> FALSE, content |-> <<>>, backup |-> <<>>]
\* the dialog is not shown
Closed == [open |-> FALSE, title |-> <<>>, current |-> <<>>, list |-> <<>>]

Init ==
    /\ clock = 1
    /\ pc = "idle"
    /\ results = [i \in Movie |-> Pending]
    /\ completed = <<>>
    /\ out_env = Writable
    /\ html_ret = NotRun
    /\ html_prev = NotRun
    /\ html_file = NoFile
    /\ json_ret = NotRun
    /\ json_file = NoFile
    /\ document = <<>>
    /\ allShowtimes = <<>>
    /\ dialog = Closed
    /\ batch = <<>>
    /\ store = <<>>
    /\ inserted_count = 0
    /\ skipped_count = 0
    /\ showtimes_data = <<>>
    /\ date_in = <<>>
    /\ time_in = <<>>
    /\ today_in = ClockDates[1]
    /\ outcome = NotCalled
    /\ cstore = <<>>
    /\ wlock = 0
    /\ cpc = <<>>
    /\ cbatch = <<>>
    /\ cidx = <<>>
    /\ pending = <<>>
    /\ ccounts = <<>>

\* the day changes
Tick ==
    /\ clock < Len(ClockDates)
    /\ clock' = clock + 1
    /\ UNCHANGED <<pc, results, batch, store, inserted_count, skipped_count,
                   showtimes_data, completed>>
    /\ UNCHANGED <<normVars, concVars, genVars, clientVars>>

\* a new run of __main__: create_database, get_movie_links, and the fetches are
\* submitted; nothing of the previous processes is left but the table
StartRun ==
    /\ pc \in {"idle", "generated", "aborted"}
    /\ pc' = "fetching"
    /\ results' = [i \in Movie |-> Pending]
    /\ completed' = <<>>
    /\ batch' = <<>>
    /\ inserted_count' = 0
    /\ skipped_count' = 0
    /\ showtimes_data' = <<>>
    /\ UNCHANGED <<clock, store>>
    /\ UNCHANGED <<normVars, concVars, genVars, clientVars>>

RECURSIVE Values(_)
Values(rs) == IF Len(rs) = 0 THEN <<>> ELSE <<rs[1].value>> \o Values(Tail(rs))

\* the rows the table would hold if the results rs were merged and saved now
RowsAfter(rs) == save_to_database(store, get_movie_showtimes(Values(rs)), Today).rows

\* r is the outcome of the fetch of movie i, if the table of the model has room
Completed(i, r) ==
    /\ Len(RowsAfter([results EXCEPT ![i] = r])) <= MaxRows
    /\ results' = [results EXCEPT ![i] = r]
    /\ completed' = Append(completed, i)

\* the day after the change, if the clock of the model has one
Later == ClockDates[IF clock < Len(ClockDates) THEN clock + 1 ELSE clock]

\* the numbers of elements a fetch may normalise before the day changes
ElementsLeft == UNION { 0..TimeCount(page) : page \in Pages \cup PadPages }

\* a worker of the pool completes fetch_movie_showtimes(movie_links[i]); it
\* normalises `left` elements of the page, then the day changes if elements remain
FetchMovie(i, response, left) ==
    /\ pc = "fetching"
    /\ ~results[i].done
    /\ left <= TimeCount(response.page)
    /\ left < TimeCount(response.page) => clock < Len(ClockDates)
    /\ Completed(i, fetch_result(movie_links[i], response, Today, Later, left))
    /\ clock' = IF left < TimeCount(response.page) THEN clock + 1 ELSE clock
    /\ UNCHANGED <<pc, batch, store, inserted_count, skipped_count, showtimes_data>>
    /\ UNCHANGED <<normVars, concVars, genVars, clientVars>>

\* lines 281-282: `for result in results` takes the futures in the order in which
\* executor.map submitted them, whatever the order in which they completed
ResultsAsCompleted(rs, order) == [k \in 1..Len(order) |-> rs[order[k]]]

ResultsInOrder(rs, order) == [k \in 1..Len(rs) |-> rs[k]]

\* a result of the iteration holds an exception: future.result() raises it again
AnyRaised(rs) == \E k \in 1..Len(rs) : rs[k].raised

\* the loop of lines 282-285 ran to its end, or an exception left it, left
\* get_movie_showtimes and, uncaught in __main__, ended the process before line 302
Merged(rs) ==
    IF AnyRaised(rs)
    THEN /\ pc' = "aborted"
         /\ batch' = <<>>
    ELSE /\ pc' = "merged"
         /\ batch' = get_movie_showtimes(Values(rs))

\* get_movie_showtimes has consumed the results of executor.map and the pool is gone
Merge ==
    /\ pc = "fetching"
    /\ \A i \in Movie : results[i].done
    /\ Merged(ResultsInOrder(results, completed))
    /\ results' = [i \in Movie |-> Pending]
    /\ UNCHANGED <<clock, store, inserted_count, skipped_count, showtimes_data,
                   completed>>
    /\ UNCHANGED <<normVars, concVars, genVars, clientVars>>

Saved(r) ==
    /\ store' = r.rows
    /\ inserted_count' = r.inserted
    /\ skipped_count' = r.skipped

\* save_to_database(movie_showtimes, DB_NAME)
Save ==
    /\ pc = "merged"
    /\ Saved(save_to_database(store, batch, Today))
    /\ pc' = "saved"
    /\ UNCHANGED <<clock, results, batch, showtimes_data, completed>>
    /\ UNCHANGED <<normVars, concVars, genVars, clientVars>>

\* generate_json reads the table
Generate ==
    /\ pc = "saved"
    /\ showtimes_data' \in get_showtimes_from_database(store)
    /\ pc' = "generated"
    /\ UNCHANGED <<clock, results, batch, store, inserted_count, skipped_count,
                   completed>>
    /\ UNCHANGED <<normVars, concVars, genVars, clientVars>>

Next ==
    \/ Tick
    \/ StartRun
    \/ \E i \in Movie, response \in Responses, left \in ElementsLeft :
          FetchMovie(i, response, left)
    \/ Merge
    \/ Save
    \/ Generate

Spec == Init /\ [][Next]_vars

\* the runs of __main__ against a site whose pages are PadPages, the day changing
\* only while a page is read
PadResponses == { Served(page) : page \in PadPages }

PadNext ==
    \/ StartRun
    \/ \E i \in Movie, response \in PadResponses, left \in ElementsLeft :
          FetchMovie(i, response, left)
    \/ Merge
    \/ Save
    \/ Generate

SpecPad == Init /\ [][PadNext]_vars

(***************************************************************************)
(* The normaliser called on its own: format_datetime(date_in, time_in) on  *)
(* the day today_in                                                        *)
(***************************************************************************)

NormInit ==
    /\ date_in \in DateTexts
    /\ time_in \in TimeTexts
    /\ today_in \in RefDays
    /\ outcome = NotCalled
    /\ clock = 1
    /\ pc = "idle"
    /\ results = <<>>
    /\ completed = <<>>
    /\ out_env = Writable
    /\ html_ret = NotRun
    /\ html_prev = NotRun
    /\ html_file = NoFile
    /\ json_ret = NotRun
    /\ json_file = NoFile
    /\ document = <<>>
    /\ allShowtimes = <<>>
    /\ dialog = Closed
    /\ batch = <<>>
    /\ store = <<>>
    /\ inserted_count = 0
    /\ skipped_count = 0
    /\ showtimes_data = <<>>
    /\ cstore = <<>>
    /\ wlock = 0
    /\ cpc = <<>>
    /\ cbatch = <<>>
    /\ cidx = <<>>
    /\ pending = <<>>
    /\ ccounts = <<>>

NormCall ==
    /\ outcome = NotCalled
    /\ outcome' = format_datetime(date_in, time_in, today_in)
    /\ UNCHANGED <<date_in, time_in, today_in>>
    /\ UNCHANGED <<pipeVars, concVars, genVars, clientVars>>

NormNext == NormCall

SpecNorm == NormInit /\ [][NormNext]_vars

(***************************************************************************)
(* Ingestion runs that overlap: each is a process in save_to_database on   *)
(* the same database file, with its own connection. sqlite3 opens a        *)
(* transaction before the first INSERT of a connection and holds the       *)
(* database's write lock until conn.commit(); an INSERT of another         *)
(* connection waits for the lock and, when the connect() timeout elapses   *)
(* first, raises sqlite3.OperationalError, a sqlite3.Error.                *)
(***************************************************************************)

\* the overlapping runs
Runs == {1, 2}

\* the showtimes lists the runs may have scraped, all on the first day
ConcBatches ==
    { get_movie_showtimes(<< fetch_movie_showtimes(movie_links[1], p1, ClockDates[1],
                                                   ClockDates[1], 0),
                             fetch_movie_showtimes(movie_links[2], p2, ClockDates[1],
                                                   ClockDates[1], 0) >>) :
        p1 \in Pages, p2 \in Pages }

ConcInit ==
    /\ cstore = <<>>
    /\ wlock = 0
    /\ cpc = [r \in Runs |-> "start"]
    /\ cbatch = [r \in Runs |-> <<>>]
    /\ cidx = [r \in Runs |-> 1]
    /\ pending = [r \in Runs |-> <<>>]
    /\ ccounts = [r \in Runs |-> [inserted |-> 0, skipped |-> 0]]
    /\ clock = 1
    /\ pc = "idle"
    /\ results = <<>>
    /\ completed = <<>>
    /\ out_env = Writable
    /\ html_ret = NotRun
    /\ html_prev = NotRun
    /\ html_file = NoFile
    /\ json_ret = NotRun
    /\ json_file = NoFile
    /\ document = <<>>
    /\ allShowtimes = <<>>
    /\ dialog = Closed
    /\ batch = <<>>
    /\ store = <<>>
    /\ inserted_count = 0
    /\ skipped_count = 0
    /\ showtimes_data = <<>>
    /\ date_in = <<>>
    /\ time_in = <<>>
    /\ today_in = ClockDates[1]
    /\ outcome = NotCalled

\* lines 198-202: run r enters save_to_database(b) and connects
ConcStart(r, b) ==
    /\ cpc[r] = "start"
    /\ cpc' = [cpc EXCEPT ![r] = "loop"]
    /\ cbatch' = [cbatch EXCEPT ![r] = b]
    /\ UNCHANGED <<cstore, wlock, cidx, pending, ccounts>>
    /\ UNCHANGED <<pipeVars, normVars, genVars, clientVars>>

\* the statement of run r has run on the rows r sees: the committed ones
\* and those of its own transaction
Executed(r, seen, after) ==
    /\ pending' = [pending EXCEPT ![r] = SubSeq(after, Len(cstore) + 1, Len(after))]
    /\ ccounts' = [ccounts EXCEPT ![r] =
                     IF Len(after) - Len(seen) > 0
                     THEN [inserted |-> @.inserted + 1, skipped |-> @.skipped]
                     ELSE [inserted |-> @.inserted, skipped |-> @.skipped + 1]]

\* lines 206-222: one INSERT OR IGNORE of run r, which takes the write lock
ConcInsert(r) ==
    /\ cpc[r] = "loop"
    /\ cidx[r] <= Len(cbatch[r])
    /\ wlock \in {0, r}
    /\ wlock' = r
    /\ Executed(r, cstore \o pending[r],
                InsertOrIgnore(cstore \o pending[r], cbatch[r][cidx[r]], ClockDates[1]))
    /\ cidx' = [cidx EXCEPT ![r] = @ + 1]
    /\ UNCHANGED <<cstore, cpc, cbatch>>
    /\ UNCHANGED <<pipeVars, normVars, genVars, clientVars>>

\* lines 224-225: the INSERT of run r found the database locked by the other
\* connection for the whole timeout; the error is printed and the loop goes on
ConcLocked(r) ==
    /\ cpc[r] = "loop"
    /\ cidx[r] <= Len(cbatch[r])
    /\ wlock \notin {0, r}
    /\ cidx' = [cidx EXCEPT ![r] = @ + 1]
    /\ UNCHANGED <<cstore, wlock, cpc, cbatch, pending, ccounts>>
    /\ UNCHANGED <<pipeVars, normVars, genVars, clientVars>>

\* lines 227-231: conn.commit() and close; the rows of r become the table's
ConcCommit(r) ==
    /\ cpc[r] = "loop"
    /\ cidx[r] > Len(cbatch[r])
    /\ cstore' = cstore \o pending[r]
    /\ pending' = [pending EXCEPT ![r] = <<>>]
    /\ wlock' = IF wlock = r THEN 0 ELSE wlock
    /\ cpc' = [cpc EXCEPT ![r] = "done"]
    /\ UNCHANGED <<cbatch, cidx, ccounts>>
    /\ UNCHANGED <<pipeVars, normVars, genVars, clientVars>>

ConcNext ==
    \/ \E r \in Runs, b \in ConcBatches : ConcStart(r, b)
    \/ \E r \in Runs : ConcInsert(r)
    \/ \E r \in Runs : ConcLocked(r)
    \/ \E r \in Runs : ConcCommit(r)

SpecConc == ConcInit /\ [][ConcNext]_vars

(***************************************************************************)
(* Properties                                                              *)
(***************************************************************************)

\* the keys of the rows or dicts of a list
KeySet(rows) == { NaturalKey(rows[i]) : i \in 1..Len(rows) }

KeysDistinct(rows) ==
    \A i, j \in 1..Len(rows) : NaturalKey(rows[i]) = NaturalKey(rows[j]) => i = j

\* how many rows hold the key of a record
KeyCount(rows, showtime) ==
    Cardinality({ i \in 1..Len(rows) : NaturalKey(rows[i]) = NaturalKey(showtime) })

\* s reads YYYY-MM-DD HH:MM
HasStampShape(s) ==
    /\ Len(s) = 16
    /\ \A i \in {1, 2, 3, 4, 6, 7, 9, 10, 12, 13, 15, 16} : IsDigit(s[i])
    /\ s[5] = "-" /\ s[8] = "-" /\ s[11] = " " /\ s[14] = ":"

StampDate(s) == Date(ToNat(Slice(s, 1, 4)), ToNat(Slice(s, 6, 7)), ToNat(Slice(s, 9, 10)))
StampMinutes(s) == 60 * ToNat(Slice(s, 12, 13)) + ToNat(Slice(s, 15, 16))

\* s is the text of a moment: a date of the calendar and a time of the day
IsCanonical(s) ==
    /\ HasStampShape(s)
    /\ ValidDate(StampDate(s).y, StampDate(s).m, StampDate(s).d)
    /\ ToNat(Slice(s, 12, 13)) <= 23
    /\ ToNat(Slice(s, 15, 16)) <= 59

\* the moment of a is not after the moment of b
NotAfter(a, b) ==
    \/ DateLess(StampDate(a), StampDate(b))
    \/ StampDate(a) = StampDate(b) /\ StampMinutes(a) <= StampMinutes(b)

\* rows is a prefix of rows2
IsPrefix(rows, rows2) ==
    /\ Len(rows) <= Len(rows2)
    /\ \A i \in 1..Len(rows) : rows2[i] = rows[i]

\* C1: after any sequence of save_to_database calls, over any batches and any
\* number of runs, no two rows of the table share (title, date, time, cinema, link)
C1_UniqueNaturalKey == KeysDistinct(store)

\* a run that re-scraped stored showtimes has saved: rows were skipped
C1_Witness == pc = "saved" /\ skipped_count >= 1 /\ Len(store) >= 2

\* C2: saving is idempotent: after save_to_database(batch) on any table, a second
\* save_to_database(batch), on whatever day, leaves the table as it is, and every
\* record of the batch is in the table exactly once
C2_SaveIdempotent ==
    pc = "saved" =>
        /\ \A d \in 1..Len(ClockDates) :
              save_to_database(store, batch, ClockDates[d]).rows = store
        /\ \A j \in 1..Len(batch) : KeyCount(store, batch[j]) = 1

\* a batch of two records was saved and at least one of them was new
C2_Witness == pc = "saved" /\ Len(batch) = 2 /\ inserted_count >= 1

\* C3: when runs that overlap have all finished save_to_database on batches that
\* overlap, the table holds one row per key and its keys are the union of the
\* keys of the batches
C3_ConcurrentUnion ==
    (\A r \in Runs : cpc[r] = "done") =>
        /\ KeysDistinct(cstore)
        /\ KeySet(cstore) = UNION { KeySet(cbatch[r]) : r \in Runs }

\* C4: the table is append-only: every step of every run keeps each stored row
\* in its place with all its fields, formatted_datetime and created_at included;
\* rows are only added after them
C4_AppendOnly == [][IsPrefix(store, store')]_vars

\* a run saved a record whose key was stored with another formatted_datetime,
\* and the stored row is as it was
C4_Witness ==
    /\ pc = "saved"
    /\ \E i \in 1..Len(store), j \in 1..Len(batch) :
          /\ NaturalKey(store[i]) = NaturalKey(batch[j])
          /\ store[i].formatted_datetime # batch[j].formatted_datetime

\* C5 as stated: every stored formatted_datetime is what format_datetime gives
\* for the row's date and time on the current day
C5_CurrentReference ==
    \A i \in 1..Len(store) :
        store[i].formatted_datetime # NULL =>
            store[i].formatted_datetime
                = format_datetime(store[i].date, store[i].time, Today).val

\* C5: every stored formatted_datetime is what format_datetime gave for the
\* row's date and time on a day the clock showed no later than the day the row
\* was created; it is not brought up to date afterwards
C5_IngestionReference ==
    \A i \in 1..Len(store) :
        \E d \in 1..clock :
            /\ ~DateLess(store[i].created_at, ClockDates[d])
            /\ store[i].formatted_datetime
                 = format_datetime(store[i].date, store[i].time, ClockDates[d]).val

\* a row stored on an earlier day holds a moment that format_datetime would no
\* longer give today
C5_Witness ==
    \E i \in 1..Len(store) :
        /\ DateLess(store[i].created_at, Today)
        /\ IsCanonical(store[i].formatted_datetime)
        /\ store[i].formatted_datetime
             # format_datetime(store[i].date, store[i].time, Today).val

\* C6: format_datetime is total: whatever the two texts, empty and unparseable
\* ones included, the call hands a text to its caller and raises nothing
C6_Total ==
    /\ outcome.tag \in {"none", "return"}
    /\ outcome.tag = "return" => outcome.val \in Seq(DOMAIN OrdMap)

\* the body raised (the hour of the time is out of range) and the call returned
C6_Witness ==
    /\ outcome.tag = "return"
    /\ format_datetime_body(date_in, time_in, today_in).tag = "raise"

\* C7: when the date or the time cannot be parsed the formatted_datetime of the
\* stored row is absent, never a substitute text: every stored
\* formatted_datetime is NULL or a moment
C7_FailureIsAbsent ==
    \A i \in 1..Len(store) :
        ~IsCanonical(store[i].formatted_datetime) => store[i].formatted_datetime = NULL

\* C8: a record whose normalisation failed is in no result of
\* get_showtimes_from_database: every dict of the result holds a moment
C8_FailedNotQueried ==
    pc = "generated" =>
        \A k \in 1..Len(showtimes_data) :
            IsCanonical(showtimes_data[k].formatted_datetime)

\* C9: get_showtimes_from_database returns the stored rows that have a moment,
\* each once, and no others, the earlier moment first
C9_QueryExact ==
    pc = "generated" =>
        /\ \A k \in 1..Len(showtimes_data) :
              IsCanonical(showtimes_data[k].formatted_datetime)
        /\ \A i \in 1..Len(store) :
              IsCanonical(store[i].formatted_datetime) =>
                  Cardinality({ k \in 1..Len(showtimes_data) :
                                  showtimes_data[k] = RowDict(store[i]) }) = 1
        /\ \A k \in 1..Len(showtimes_data) :
              \E i \in 1..Len(store) : showtimes_data[k] = RowDict(store[i])
        /\ \A k \in 1..(Len(showtimes_data) - 1) :
              NotAfter(showtimes_data[k].formatted_datetime,
                       showtimes_data[k + 1].formatted_datetime)

\* the month and the day each date text names
MonthDayOf ==
    (DFriMay30 :> <<5, 30>>) @@ (DSunJun1 :> <<6, 1>>) @@ (DJan1 :> <<1, 1>>) @@
    (DWedDec31 :> <<12, 31>>) @@ (DFeb29 :> <<2, 29>>)

\* the time of the day each time text names, as HH:MM
ClockOf ==
    (T200pm :> T1400) @@ (T200PM :> T1400) @@ (T1400 :> T1400) @@
    (T1000am :> <<"1", "0", ":", "0", "0">>) @@
    (T1200am :> <<"0", "0", ":", "0", "0">>) @@
    (T1200pm :> <<"1", "2", ":", "0", "0">>) @@
    (T920pm :> <<"2", "1", ":", "2", "0">>) @@
    (T730pmcc :> <<"1", "9", ":", "3", "0">>)

\* the year the rule gives the month and day md on the day ref
RolledYear(md, ref) ==
    IF md[1] < ref.m \/ (md[1] = ref.m /\ md[2] < ref.d) THEN ref.y + 1 ELSE ref.y

\* what the rule asks of the text `out` returned for md and hm on the day ref;
\* 29 February of a leap year, once past, has no date in the year after
RolloverHolds(md, hm, ref, out) ==
    IF ValidDate(RolledYear(md, ref), md[1], md[2])
    THEN /\ IsCanonical(out)
         /\ StampDate(out) = Date(RolledYear(md, ref), md[1], md[2])
         /\ ~DateLess(StampDate(out), ref)
         /\ Slice(out, 12, 16) = hm
    ELSE ~IsCanonical(out)

\* C10: for a date text without a year that is a date of the reference year,
\* format_datetime gives the reference year when the date is on or after the
\* reference day and the year after when it is before it, so the moment is never
\* before the reference day; "Jan 1", "10:00am" on 2025-12-31 gives
\* "2026-01-01 10:00"
C10_YearRollover ==
    /\ (/\ outcome.tag = "return"
        /\ date_in \in DOMAIN MonthDayOf
        /\ time_in \in DOMAIN ClockOf)
        => (ValidDate(today_in.y, MonthDayOf[date_in][1], MonthDayOf[date_in][2])
              => RolloverHolds(MonthDayOf[date_in], ClockOf[time_in], today_in,
                               outcome.val))
    /\ (/\ outcome.tag = "return"
        /\ date_in = DJan1 /\ time_in = T1000am /\ today_in = Date(2025, 12, 31))
        => outcome.val = <<"2", "0", "2", "6", "-", "0", "1", "-", "0", "1", " ", "1", "0", ":", "0", "0">>

\* "Jan 1" was normalised on the last day of 2025 and came out in 2026
C10_Witness ==
    /\ outcome.tag = "return"
    /\ date_in = DJan1 /\ today_in = Date(2025, 12, 31)
    /\ time_in \in DOMAIN ClockOf
    /\ StampDate(outcome.val).y = 2026

(***************************************************************************)
(* The normaliser called on the times of the 12-hour clock                 *)
(***************************************************************************)

\* the minutes the time texts carry
ClockMinutes == {0, 7, 20, 59}
Meridiems == {<<"a", "m">>, <<"p", "m">>}
\* what the page may put between the minutes and the meridiem, and after it
Gaps == {<<>>, <<" ">>}
Tails == {<<>>, <<" ", "c", "c">>}

\* "h:mm", a gap, "am" or "pm", and a tail
TwelveHourText(h, mi, ap, gap, tail) ==
    NatStr(h) \o <<":">> \o ZeroPad(mi, 2) \o gap \o ap \o tail

TwelveHourTexts ==
    { TwelveHourText(h, mi, ap, gap, tail) :
        h \in 1..12, mi \in ClockMinutes, ap \in Meridiems, gap \in Gaps, tail \in Tails }

TwelveInit ==
    /\ date_in \in {DFriMay30}
    /\ time_in \in TwelveHourTexts
    /\ today_in \in {Date(2025, 5, 28)}
    /\ outcome = NotCalled
    /\ clock = 1
    /\ pc = "idle"
    /\ results = <<>>
    /\ completed = <<>>
    /\ out_env = Writable
    /\ html_ret = NotRun
    /\ html_prev = NotRun
    /\ html_file = NoFile
    /\ json_ret = NotRun
    /\ json_file = NoFile
    /\ document = <<>>
    /\ allShowtimes = <<>>
    /\ dialog = Closed
    /\ batch = <<>>
    /\ store = <<>>
    /\ inserted_count = 0
    /\ skipped_count = 0
    /\ showtimes_data = <<>>
    /\ cstore = <<>>
    /\ wlock = 0
    /\ cpc = <<>>
    /\ cbatch = <<>>
    /\ cidx = <<>>
    /\ pending = <<>>
    /\ ccounts = <<>>

SpecTwelve == TwelveInit /\ [][NormNext]_vars

\* the hour of the day of hour h of the 12-hour clock
HourOfDay(h, ap) ==
    IF ap = <<"a", "m">> THEN (IF h = 12 THEN 0 ELSE h)
    ELSE (IF h = 12 THEN 12 ELSE h + 12)

\* C11: for every hour h in 1..12 and minute m, format_datetime reads "h:mm am"
\* as hour 0 when h = 12 and as h otherwise, "h:mm pm" as hour 12 when h = 12
\* and as h + 12 otherwise, and keeps the minute
C11_TwelveHourClock ==
    outcome.tag # "none" =>
        \A h \in 1..12, mi \in ClockMinutes, ap \in Meridiems, gap \in Gaps, tail \in Tails :
            time_in = TwelveHourText(h, mi, ap, gap, tail) =>
                /\ outcome.tag = "return"
                /\ HasStampShape(outcome.val)
                /\ ToNat(Slice(outcome.val, 12, 13)) = HourOfDay(h, ap)
                /\ ToNat(Slice(outcome.val, 15, 16)) = mi

\* "12:07am" was normalised and came out as 00:07
C11_Witness ==
    /\ outcome.tag = "return"
    /\ time_in = TwelveHourText(12, 7, <<"a", "m">>, <<>>, <<>>)
    /\ Slice(outcome.val, 12, 16) = <<"0", "0", ":", "0", "7">>

(***************************************************************************)
(* Failed fetches and the order of completion                              *)
(***************************************************************************)

\* C12: when the fetch of a movie's page fails (a response other than 200, or an
\* error raised by the request) get_movie_showtimes does not abort; the failed movie
\* contributes nothing and the showtimes of the other movies are returned for saving
C12_FailedFetchSkipped ==
    [][ (pc = "fetching" /\ pc' # "fetching")
          => /\ pc' = "merged"
             /\ batch' = get_movie_showtimes(Values(results)) ]_vars

\* the orders in which the fetches of all movies can complete
CompletionOrders ==
    { o \in [Movie -> Movie] : \A a, b \in Movie : a # b => o[a] # o[b] }

\* C13: whatever the order in which the parallel fetches completed, get_movie_showtimes
\* returns the same merged batch, and save_to_database leaves the rows that this
\* batch gives on the table as it was
C13_CompletionOrderFree ==
    [][ /\ (pc = "fetching" /\ pc' = "merged")
            => \A o \in CompletionOrders :
                  batch' = get_movie_showtimes(Values(ResultsInOrder(results, o)))
        /\ (pc = "merged" /\ pc' = "saved")
            => store' = save_to_database(store, batch, Today).rows ]_vars

\* the fetch of the second movie completed first, both returned showtimes, and the
\* batch was merged and saved
C13_Witness ==
    /\ pc = "saved"
    /\ completed = <<2, 1>>
    /\ Len(batch) = 2
    /\ batch[1].title = TitleDune
    /\ batch[2].title = TitleHeat
    /\ inserted_count = 2

(***************************************************************************)
(* End to end: one showing of "Dune"                                       *)
(***************************************************************************)

\* "2025-05-30 14:00", "Cinema One - IMAX", "IMAX"
StampMay30At1400 == <<"2", "0", "2", "5", "-", "0", "5", "-", "3", "0", " ", "1", "4", ":", "0", "0">>
CinemaOneImax == <<"C", "i", "n", "e", "m", "a", " ", "O", "n", "e", " ", "-", " ", "I", "M", "A", "X">>
Imax == <<"I", "M", "A", "X">>

\* on 2025-05-28 the batch of the run is the one showing ("Dune", "Fri, May 30",
\* "2:00pm - Cinema One - IMAX", "http://x/dune") and the table is empty
OneShowing ==
    /\ clock = 1
    /\ store = <<>>
    /\ Len(batch) = 1
    /\ batch[1].title = TitleDune
    /\ batch[1].date = DFriMay30
    /\ batch[1].link = LinkDune

\* C17 as stated: the one input yields exactly one stored record, with timestamp
\* "2025-05-30 14:00" and cinema "IMAX"
C17_CinemaIsImax ==
    [][ (pc = "merged" /\ OneShowing /\ pc' = "saved")
          => /\ Len(store') = 1
             /\ store'[1].formatted_datetime = StampMay30At1400
             /\ store'[1].cinema = Imax ]_vars

\* C17: the one input yields exactly one stored record, with the raw date and link,
\* time "2:00pm", timestamp "2025-05-30 14:00" and, the text being split at its
\* first " - " only, cinema "Cinema One - IMAX"
C17_EndToEnd ==
    [][ (pc = "merged" /\ OneShowing /\ pc' = "saved")
          => /\ Len(store') = 1
             /\ NaturalKey(store'[1])
                  = <<TitleDune, DFriMay30, T200pm, CinemaOneImax, LinkDune>>
             /\ store'[1].formatted_datetime = StampMay30At1400
             /\ store'[1].created_at = ClockDates[1]
             /\ inserted_count' = 1 ]_vars

\* the run has saved the one showing into the empty table
C17_Witness ==
    /\ pc = "saved"
    /\ clock = 1
    /\ Len(batch) = 1
    /\ batch[1].title = TitleDune
    /\ batch[1].date = DFriMay30
    /\ Len(store) = 1
    /\ store[1].cinema = CinemaOneImax
    /\ inserted_count = 1

(***************************************************************************)
(* The site generator (site_generator.py): texts and times                 *)
(***************************************************************************)

\* \w of the regular expressions: a letter, a digit or the underscore
IsWordChar(c) ==
    \/ IsDigit(c)
    \/ c = "_"
    \/ c \in DOMAIN LowerMap
    \/ \E u \in DOMAIN LowerMap : LowerMap[u] = c

RECURSIVE KeepSlugChars(_)
\* re.sub(r'[^\w\s-]', '', s)
KeepSlugChars(s) ==
    IF s = <<>> THEN <<>>
    ELSE IF IsWordChar(Head(s)) \/ IsSpace(Head(s)) \/ Head(s) = "-"
         THEN <<Head(s)>> \o KeepSlugChars(Tail(s))
         ELSE KeepSlugChars(Tail(s))

RECURSIVE DashForBlanks(_)
\* re.sub(r'[\s]+', '-', s)
DashForBlanks(s) ==
    IF s = <<>> THEN <<>>
    ELSE IF IsSpace(Head(s)) THEN <<"-">> \o DashForBlanks(LStrip(s))
    ELSE <<Head(s)>> \o DashForBlanks(Tail(s))

\* lines 8-14
slugify(title) == DashForBlanks(Strip(KeepSlugChars(Lower(title))))

\* datetime.strptime(text, "%Y-%m-%d %H:%M") for the texts strftime writes with the
\* same format (lines 22, 37, 48, 163): the moment as <<date, minutes of the day>>;
\* every other stored text (a raw date and time) makes it raise ValueError
strptime_stamp(text) ==
    IF IsCanonical(text) THEN ParseOk(<<StampDate(text), StampMinutes(text)>>)
    ELSE ParseError

RECURSIVE LastToken(_)
\* text.split()[-1] of a text that is not blank
LastToken(text) ==
    IF Contains(Strip(text), <<" ">>)
    THEN LastToken(Split1(Strip(text), <<" ">>)[2])
    ELSE Strip(text)

\* datetime.strptime(f"2025-01-01 {time_part}", "%Y-%m-%d %H:%M"), line 27
strptime_time_part(parts) ==
    IF /\ Len(parts) = 2
       /\ AllDigits(parts[1]) /\ Len(parts[1]) <= 2
       /\ AllDigits(parts[2]) /\ Len(parts[2]) <= 2
       /\ ToNat(parts[1]) <= 23
       /\ ToNat(parts[2]) <= 59
    THEN ParseOk(<<Date(2025, 1, 1), 60 * ToNat(parts[1]) + ToNat(parts[2])>>)
    ELSE ParseError

\* lines 24-29: the fallbacks of the sort key
time_part_or_midnight(parsed) ==
    IF parsed.tag = "ok" THEN parsed.val ELSE <<Date(2025, 1, 1), 0>>

\* lines 16-29: the key of the per-date sort
parse_time_from_formatted_datetime(fd) ==
    IF strptime_stamp(fd).tag = "ok" THEN strptime_stamp(fd).val
    ELSE IF Strip(fd) = <<>> THEN <<Date(2025, 1, 1), 0>>
    ELSE time_part_or_midnight(strptime_time_part(Split1(LastToken(fd), <<":">>)))

\* a < b on datetime
MomentLess(a, b) == DateLess(a[1], b[1]) \/ (a[1] = b[1] /\ a[2] < b[2])

\* the names strftime and strptime use for %a (Monday first) and %b
DayNames ==
    << <<"M", "o", "n">>, <<"T", "u", "e">>, <<"W", "e", "d">>, <<"T", "h", "u">>,
       <<"F", "r", "i">>, <<"S", "a", "t">>, <<"S", "u", "n">> >>
MonthNames ==
    << <<"J", "a", "n">>, <<"F", "e", "b">>, <<"M", "a", "r">>, <<"A", "p", "r">>,
       <<"M", "a", "y">>, <<"J", "u", "n">>, <<"J", "u", "l">>, <<"A", "u", "g">>,
       <<"S", "e", "p">>, <<"O", "c", "t">>, <<"N", "o", "v">>, <<"D", "e", "c">> >>

\* date.weekday(): 0 for Monday
MonthShift == <<0, 3, 2, 5, 0, 3, 5, 1, 4, 6, 2, 4>>
CenturyDays(y) == y + (y \div 4) - (y \div 100) + (y \div 400)
weekday(d) ==
    (CenturyDays(IF d.m < 3 THEN d.y - 1 ELSE d.y) + MonthShift[d.m] + d.d + 6) % 7

RECURSIVE ReplaceAll(_, _, _)
\* str.replace(old, new)
ReplaceAll(s, old, new) ==
    IF Find(s, old) = 0 THEN s
    ELSE Slice(s, 1, Find(s, old) - 1) \o new
         \o ReplaceAll(Slice(s, Find(s, old) + Len(old), Len(s)), old, new)

\* "Unknown Date", "Unknown Time"
UnknownDate == <<"U", "n", "k", "n", "o", "w", "n", " ", "D", "a", "t", "e">>
UnknownTime == <<"U", "n", "k", "n", "o", "w", "n", " ", "T", "i", "m", "e">>

\* dt.strftime("%a, %b %d").replace(" 0", " ")
strftime_abd(d) ==
    ReplaceAll(DayNames[weekday(d) + 1] \o <<",", " ">> \o MonthNames[d.m] \o <<" ">>
                   \o ZeroPad(d.d, 2),
               <<" ", "0">>, <<" ">>)

\* lines 31-40
format_date_for_display(fd) ==
    IF strptime_stamp(fd).tag = "ok" THEN strftime_abd(strptime_stamp(fd).val[1])
    ELSE UnknownDate

RECURSIVE LStripZeros(_)
\* str.lstrip('0')
LStripZeros(s) == IF s # <<>> /\ Head(s) = "0" THEN LStripZeros(Tail(s)) ELSE s

\* dt.strftime("%I:%M%p").lower().lstrip('0')
strftime_IMp(minutes) ==
    LStripZeros(ZeroPad(IF (minutes \div 60) % 12 = 0 THEN 12 ELSE (minutes \div 60) % 12, 2)
                    \o <<":">> \o ZeroPad(minutes % 60, 2)
                    \o (IF minutes \div 60 < 12 THEN <<"a", "m">> ELSE <<"p", "m">>))

\* lines 42-51
format_time_for_display(fd) ==
    IF strptime_stamp(fd).tag = "ok" THEN strftime_IMp(strptime_stamp(fd).val[2])
    ELSE UnknownTime

\* the day of the month of %d: two digits, or one digit that is not 0
aby_year(text, m, d) ==
    IF Len(text) = 4 /\ AllDigits(text) THEN MakeDate(ToNat(text), m, d) ELSE ParseError

aby_comma(rest, m, d) ==
    IF Len(rest) >= 2 /\ rest[1] = "," /\ IsSpace(rest[2])
    THEN aby_year(LStrip(Tail(rest)), m, d)
    ELSE ParseError

aby_day(rest, m) ==
    IF Len(rest) >= 2 /\ IsDigit(rest[1]) /\ IsDigit(rest[2])
    THEN (IF ToNat(Slice(rest, 1, 2)) \in 1..31
          THEN aby_comma(Slice(rest, 3, Len(rest)), m, ToNat(Slice(rest, 1, 2)))
          ELSE ParseError)
    ELSE IF Len(rest) >= 1 /\ IsDigit(rest[1]) /\ rest[1] # "0"
    THEN aby_comma(Tail(rest), m, DigitVal(rest[1]))
    ELSE ParseError

aby_month(rest) ==
    IF Len(rest) >= 4 /\ Slice(rest, 1, 3) \in DOMAIN MonthMap /\ IsSpace(rest[4])
    THEN aby_day(LStrip(Slice(rest, 4, Len(rest))), MonthMap[Slice(rest, 1, 3)])
    ELSE ParseError

aby_weekday(t) ==
    IF /\ Len(t) >= 5
       /\ \E k \in 1..7 : Lower(DayNames[k]) = Slice(t, 1, 3)
       /\ t[4] = ","
       /\ IsSpace(t[5])
    THEN aby_month(LStrip(Slice(t, 5, Len(t))))
    ELSE ParseError

\* datetime.strptime(text, "%a, %b %d, %Y").date() (lines 190, 199): names without
\* regard to case, a blank of the format for one or more blanks, nothing left over,
\* a day the month has; the weekday is not compared with the date
strptime_aby(text) == aby_weekday(Lower(text))

(***************************************************************************)
(* The site generator: query, grouping and the page                        *)
(***************************************************************************)

\* site_generator lines 74-88: a fetched tuple as a dict ("Movie Title", "Date",
\* "Time", "Formatted DateTime", "Cinema", "Link"); the raw date and time are shown
\* when they are not empty
SiteRowDict(row) ==
    [title |-> row.title,
     date |-> IF row.date # <<>> THEN row.date
              ELSE format_date_for_display(row.formatted_datetime),
     time |-> IF row.time # <<>> THEN row.time
              ELSE format_time_for_display(row.formatted_datetime),
     formatted_datetime |-> row.formatted_datetime,
     cinema |-> row.cinema,
     link |-> row.link]

RECURSIVE SiteRowDicts(_)
SiteRowDicts(res) ==
    IF Len(res) = 0 THEN <<>> ELSE <<SiteRowDict(res[1])>> \o SiteRowDicts(Tail(res))

\* site_generator.get_showtimes_from_database(): the lists it may return
site_showtimes(rows) == { SiteRowDicts(res) : res \in QueryResults(rows) }

\* ", 2025", ", 2024"
Comma2025 == <<",", " ", "2", "0", "2", "5">>
Comma2024 == <<",", " ", "2", "0", "2", "4">>

\* lines 161-166: the year of the timestamp, or 2025 when it is no timestamp
year_suffix(parsed) ==
    IF parsed.tag = "ok" THEN <<",", " ">> \o NatStr(parsed.val[1].y) ELSE Comma2025

\* lines 159-168
date_with_year(date_str, fd) ==
    IF ~Contains(date_str, Comma2025) /\ ~Contains(date_str, Comma2024)
    THEN date_str \o year_suffix(strptime_stamp(fd))
    ELSE date_str

\* lines 170-176: the dict appended to the list of its date
movie_of(row) ==
    [title |-> Strip(row.title),
     time |-> Strip(row.time),
     cinema |-> Strip(row.cinema),
     link |-> Strip(row.link),
     formatted_datetime |-> row.formatted_datetime]

\* showtimes_by_date[date].append(movie): the dict as the list of its items, in the
\* order in which the keys were first used
AppendToDate(groups, date, movie) ==
    IF \E k \in 1..Len(groups) : groups[k].date = date
    THEN [k \in 1..Len(groups) |->
            IF groups[k].date = date
            THEN [date |-> date, movies |-> Append(groups[k].movies, movie)]
            ELSE groups[k]]
    ELSE Append(groups, [date |-> date, movies |-> <<movie>>])

RECURSIVE GroupByDate(_, _)
\* lines 149-176
GroupByDate(groups, data) ==
    IF Len(data) = 0 THEN groups
    ELSE GroupByDate(AppendToDate(groups,
                                  date_with_year(Strip(data[1].date),
                                                 data[1].formatted_datetime),
                                  movie_of(data[1])),
                     Tail(data))

RECURSIVE InsertByTime(_, _)
\* the place of x in a list sorted by the key: behind the items that are not after it
InsertByTime(sorted, x) ==
    IF Len(sorted) = 0 THEN <<x>>
    ELSE IF MomentLess(parse_time_from_formatted_datetime(x.formatted_datetime),
                       parse_time_from_formatted_datetime(sorted[1].formatted_datetime))
    THEN <<x>> \o sorted
    ELSE <<sorted[1]>> \o InsertByTime(Tail(sorted), x)

\* the per-date sort left out
KeepArrival(sorted, movies) == sorted \o movies

RECURSIVE SortByTime(_, _)
\* list.sort(key=...) is stable
SortByTime(sorted, movies) ==
    IF Len(movies) = 0 THEN sorted
    ELSE SortByTime(InsertByTime(sorted, movies[1]), Tail(movies))

\* lines 178-180
SortEachDate(groups) ==
    [k \in 1..Len(groups) |->
        [date |-> groups[k].date, movies |-> SortByTime(<<>>, groups[k].movies)]]

\* a filter that lets every date through
StaysAlways(parsed, today) == TRUE

\* lines 188-195: a date stays if it is not before today or cannot be parsed
Stays(parsed, today) == parsed.tag # "ok" \/ ~DateLess(parsed.val, today)

RECURSIVE future_dates(_, _)
\* lines 186-195
future_dates(groups, today) ==
    IF Len(groups) = 0 THEN <<>>
    ELSE (IF Stays(strptime_aby(groups[1].date), today)
          THEN <<groups[1].date>> ELSE <<>>)
         \o future_dates(Tail(groups), today)

RECURSIVE InsertByDate(_, _)
InsertByDate(sorted, d) ==
    IF Len(sorted) = 0 THEN <<d>>
    ELSE IF DateLess(strptime_aby(d).val, strptime_aby(sorted[1]).val)
    THEN <<d>> \o sorted
    ELSE <<sorted[1]>> \o InsertByDate(Tail(sorted), d)

\* the sort of the dates left out
KeepDates(sorted, dates) == sorted \o dates

RECURSIVE SortByDate(_, _)
SortByDate(sorted, dates) ==
    IF Len(dates) = 0 THEN sorted
    ELSE SortByDate(InsertByDate(sorted, dates[1]), Tail(dates))

\* lines 197-200: sorted(future_dates, key=strptime); the key raises ValueError for
\* a date it cannot parse, and nothing catches it
sorted_dates(dates) ==
    IF \E k \in 1..Len(dates) : strptime_aby(dates[k]).tag # "ok"
    THEN ParseError
    ELSE ParseOk(SortByDate(<<>>, dates))

\* schedule_showtimes_by_date[date]
MoviesOn(groups, date) == (CHOOSE g \in Range(groups) : g.date = date).movies

\* "movie-"
MoviePrefix == <<"m", "o", "v", "i", "e", "-">>

\* a counter that stays at 1
same_counter(n, k) == n

\* movie_counter after k more elements
next_counter(n, k) == n + k

\* lines 1041-1042, 1076-1077: f"movie-{movie_slug}-{movie_counter}"
movie_id(title, n) == MoviePrefix \o slugify(title) \o <<"-">> \o NatStr(n)

\* one <div class='movie'>: its id and its data attributes
Element(movie, date, n) ==
    [id |-> movie_id(movie.title, n),
     title |-> movie.title,
     time |-> movie.time,
     date |-> date,
     cinema |-> movie.cinema,
     formatted_datetime |-> movie.formatted_datetime,
     link |-> movie.link]

\* lines 1039-1055: the elements of one day, the counter being n at its first
DayElements(movies, date, n) ==
    [k \in 1..Len(movies) |-> Element(movies[k], date, next_counter(n, k - 1))]

RECURSIVE ByDay(_, _, _)
\* lines 1036-1056: one <div class='day'> per date of sorted_dates
ByDay(dates, groups, n) ==
    IF Len(dates) = 0 THEN <<>>
    ELSE <<[date |-> dates[1],
            movies |-> DayElements(MoviesOn(groups, dates[1]), dates[1], n)]>>
         \o ByDay(Tail(dates), groups,
                  next_counter(n, Len(MoviesOn(groups, dates[1]))))

\* {**movie, 'display_date': date}
WithDate(movies, date) ==
    [k \in 1..Len(movies) |->
        [title |-> movies[k].title,
         time |-> movies[k].time,
         cinema |-> movies[k].cinema,
         link |-> movies[k].link,
         formatted_datetime |-> movies[k].formatted_datetime,
         display_date |-> date]]

RECURSIVE EveryShowing(_, _)
\* the showings of all groups, whether their date was retained or not
EveryShowing(dates, groups) ==
    IF Len(groups) = 0 THEN <<>>
    ELSE WithDate(groups[1].movies, groups[1].date) \o EveryShowing(dates, Tail(groups))

RECURSIVE Showings(_, _)
\* lines 1061-1062: the movies of the days in the order of the by-day output
Showings(dates, groups) ==
    IF Len(dates) = 0 THEN <<>>
    ELSE WithDate(MoviesOn(groups, dates[1]), dates[1]) \o Showings(Tail(dates), groups)

\* line 1065: f"{title}|{movie['time']}|{date}|{movie['cinema']}"
showtime_key(m) ==
    m.title \o <<"|">> \o m.time \o <<"|">> \o m.display_date \o <<"|">> \o m.cinema

\* every showing counted as not seen before
SeenNever(seen, showings) == showings

RECURSIVE Unseen(_, _)
\* lines 1066-1070: the showings whose key was not seen before
Unseen(seen, showings) ==
    IF Len(showings) = 0 THEN <<>>
    ELSE IF showtime_key(showings[1]) \in seen THEN Unseen(seen, Tail(showings))
    ELSE <<showings[1]>> \o Unseen(seen \cup {showtime_key(showings[1])}, Tail(showings))

\* the keys of movie_groups
Titles(showings) == { showings[k].title : k \in 1..Len(showings) }

RECURSIVE SortedTitles(_)
\* sorted(movie_groups.items()): by title, in the order of str
SortedTitles(titles) ==
    IF titles = {} THEN <<>>
    ELSE <<CHOOSE t \in titles : \A u \in titles : StrLeq(t, u)>>
         \o SortedTitles(titles \ {CHOOSE t \in titles : \A u \in titles : StrLeq(t, u)})

\* movie_groups[title]
GroupOf(showings, title) == SelectSeq(showings, LAMBDA m : m.title = title)

\* lines 1075-1091: the elements of one title, the counter being n at its first
GroupElements(movies, n) ==
    [k \in 1..Len(movies) |->
        Element(movies[k], Strip(movies[k].display_date), next_counter(n, k - 1))]

RECURSIVE ByTitle(_, _, _)
\* lines 1072-1092: one <div class='movie-group'> per title
ByTitle(titles, showings, n) ==
    IF Len(titles) = 0 THEN <<>>
    ELSE <<[title |-> titles[1],
            movies |-> GroupElements(GroupOf(showings, titles[1]), n)]>>
         \o ByTitle(Tail(titles), showings,
                    next_counter(n, Len(GroupOf(showings, titles[1]))))

\* the page: the options of the day filter, the by-day part and the by-movie part;
\* movie_counter = 1 at line 1035 and is not reset at line 1072
PageOf(dates, groups, showings) ==
    [options |-> dates,
     by_day |-> ByDay(dates, groups, 1),
     by_title |-> ByTitle(SortedTitles(Titles(showings)), showings,
                          next_counter(1, Len(Showings(dates, groups))))]

\* what the code from line 148 on does: it builds the page or raises
Built(page) == [tag |-> "ok", page |-> page]
BuildRaises == [tag |-> "raise", page |-> <<>>]

Emit_page(sorted, groups) ==
    IF sorted.tag # "ok" THEN BuildRaises
    ELSE Built(PageOf(sorted.val, groups, Unseen({}, Showings(sorted.val, groups))))

Filtered(groups, today) == Emit_page(sorted_dates(future_dates(groups, today)), groups)

\* lines 148-1176: html_content for the list the query returned, on the day today
build_html(showtimes, today) == Filtered(SortEachDate(GroupByDate(<<>>, showtimes)), today)

(***************************************************************************)
(* The generators and their output files                                   *)
(***************************************************************************)

\* conditions of the output path: usable; the directory of the path is missing and
\* cannot be made (os.access is false, os.makedirs raises OSError); open(path, "w")
\* raises (the path is a directory, the file is read-only); open succeeds and
\* truncates the file, then the write raises (no space left, quota, I/O error)
DirUnusable == "dir_unusable"
OpenFails == "open_fails"
WriteFails == "write_fails"
OutEnvs == {Writable, DirUnusable, OpenFails, WriteFails}

Returned(v, page) == [tag |-> "return", val |-> v, page |-> page]
GenRaised == [tag |-> "raise", val |-> FALSE, page |-> <<>>]
File(content, backup) == [exists |-> TRUE, content |-> content, backup |-> backup]
Truncated == <<>>

\* lines 1178-1185 of site_generator, 73-80 of json_generator: open(path, "w"),
\* write, close; every exception is caught and False returned
WriteOut(env, file, content) ==
    IF env = OpenFails THEN [ret |-> Returned(FALSE, <<>>), file |-> file]
    ELSE IF env = WriteFails
    THEN [ret |-> Returned(FALSE, <<>>), file |-> File(Truncated, file.backup)]
    ELSE [ret |-> Returned(TRUE, content), file |-> File(content, file.backup)]

\* lines 148-1185: the page is built and written, or the ValueError of line 199
\* leaves generate_html
BuildAndWrite(env, file, built) ==
    IF built.tag = "raise" THEN [ret |-> GenRaised, file |-> file]
    ELSE WriteOut(env, file, built.page)

\* lines 123-130: shutil.copy2 of the file that exists, a failure being ignored
Backup(env, file) ==
    IF file.exists /\ env # WriteFails
    THEN File(file.content, file.content)
    ELSE file

\* lines 133-146
QueryAndBuild(showtimes, today, env, file) ==
    IF Len(showtimes) = 0 THEN [ret |-> Returned(FALSE, <<>>), file |-> file]
    ELSE BuildAndWrite(env, file, build_html(showtimes, today))

\* site_generator lines 99-1185, the query having returned the list showtimes
generate_html(showtimes, today, env, file) ==
    IF env = DirUnusable THEN [ret |-> Returned(FALSE, <<>>), file |-> file]
    ELSE QueryAndBuild(showtimes, today, env, Backup(env, file))

\* json_generator lines 66-70
JsonData(showtimes, today) ==
    [generated_at |-> today, total_showtimes |-> Len(showtimes), showtimes |-> showtimes]

\* json_generator lines 48-80, the query having returned the list showtimes
generate_json(showtimes, today, env, file) ==
    IF Len(showtimes) = 0 THEN [ret |-> Returned(FALSE, <<>>), file |-> file]
    ELSE IF env = DirUnusable THEN [ret |-> GenRaised, file |-> file]
    ELSE WriteOut(env, file, JsonData(showtimes, today))

HtmlDone(r) ==
    /\ html_ret' = r.ret
    /\ html_file' = r.file

\* python site_generator.py
GenerateHtml ==
    /\ \E showtimes \in site_showtimes(store) :
          HtmlDone(generate_html(showtimes, Today, out_env, html_file))
    /\ html_prev' = html_ret
    /\ UNCHANGED <<out_env, json_ret, json_file>>
    /\ UNCHANGED <<pipeVars, normVars, concVars, clientVars>>

JsonDone(r) ==
    /\ json_ret' = r.ret
    /\ json_file' = r.file

\* python json_generator.py
GenerateJson ==
    /\ \E showtimes \in get_showtimes_from_database(store) :
          JsonDone(generate_json(showtimes, Today, out_env, json_file))
    /\ UNCHANGED <<out_env, html_ret, html_prev, html_file>>
    /\ UNCHANGED <<pipeVars, normVars, concVars, clientVars>>

\* the file system changes between two runs
SetEnv(env) ==
    /\ env # out_env
    /\ out_env' = env
    /\ UNCHANGED <<html_ret, html_prev, html_file, json_ret, json_file>>
    /\ UNCHANGED <<pipeVars, normVars, concVars, clientVars>>

\* "Sat, May 31", "Heat 2!" and the link of its page
DSatMay31 == <<"S", "a", "t", ",", " ", "M", "a", "y", " ", "3", "1">>
TitleHeat2 == <<"H", "e", "a", "t", " ", "2", "!">>
LinkHeat2 == <<"h", "t", "t", "p", ":", "/", "/", "x", "/", "h", "e", "a", "t", "-", "2">>

MovieDune == [title |-> TitleDune, link |-> LinkDune]
MovieHeat == [title |-> TitleHeat, link |-> LinkHeat]
MovieHeat2 == [title |-> TitleHeat2, link |-> LinkHeat2]
\* the same title listed a second time under another link
LinkDuneSeries == <<"h", "t", "t", "p", ":", "/", "/", "x", "/", "s", "e", "r", "i", "e", "s", "/", "d", "u", "n", "e">>
MovieDuneSeries == [title |-> TitleDune, link |-> LinkDuneSeries]
\* a .date text that names its year
DFriMay30Of2025 == <<"F", "r", "i", ",", " ", "M", "a", "y", " ", "3", "0", ",", " ", "2", "0", "2", "5">>
\* the .time text of row 1 with a second blank after the dash
TT200ImaxPadded == <<"2", ":", "0", "0", "p", "m", " ", "-", " ", " ", "C", "i", "n", "e", "m", "a", " ", "O", "n", "e", " ", "-", " ", "I", "M", "A", "X">>

\* the row save_to_database writes for a .date and .time text scraped on a day
ScrapedRow(movie, date, time_theater, day) ==
    NewRow(showtime_entry(movie, date, time_and_cinema(time_theater), day), day)

\* rows of the table, in the order in which runs on the days of ClockDates wrote them
Catalogue ==
    << ScrapedRow(MovieDune, DFriMay30, TT200Imax, ClockDates[1]),
       ScrapedRow(MovieHeat, DFriMay30, TT200Imax, ClockDates[1]),
       ScrapedRow(MovieHeat2, DSatMay31, TT920Two, ClockDates[1]),
       ScrapedRow(MovieDune, DSunJun1, T1000am, ClockDates[1]),
       ScrapedRow(MovieHeat, DToday, TT920Two, ClockDates[1]),
       ScrapedRow(MovieHeat2, DTBA, T200pm, ClockDates[1]),
       ScrapedRow(MovieDune, DJan1, T1000am, ClockDates[1]),
       ScrapedRow(MovieDune, DFriMay30, T2500, ClockDates[1]),
       ScrapedRow(MovieDune, DFriMay30Of2025, T1400, ClockDates[1]),
       ScrapedRow(MovieDune, DFriMay30Of2025, T200pm, ClockDates[1]),
       ScrapedRow(MovieDuneSeries, DFriMay30, TT200Imax, ClockDates[1]),
       ScrapedRow(MovieDune, DFriMay30, TT200ImaxPadded, ClockDates[1]),
       ScrapedRow(MovieHeat2, DFriMay30, T1000am, ClockDates[2]) >>

RECURSIVE RowsAt(_)
\* the rows of the catalogue at the places S, in their order
RowsAt(S) ==
    IF S = {} THEN <<>>
    ELSE <<Catalogue[CHOOSE k \in S : \A j \in S : k <= j]>>
         \o RowsAt(S \ {CHOOSE k \in S : \A j \in S : k <= j})

\* the tables of at most MaxRows rows
SiteStores == { RowsAt(S) : S \in { T \in SUBSET (1..Len(Catalogue)) : Cardinality(T) <= MaxRows } }

\* the table, the day and no output yet
SiteInit ==
    /\ clock \in 1..Len(ClockDates)
    /\ store \in { rows \in SiteStores :
                     \A k \in 1..Len(rows) : ~DateLess(ClockDates[clock], rows[k].created_at) }
    /\ pc = "idle"
    /\ results = <<>>
    /\ completed = <<>>
    /\ batch = <<>>
    /\ inserted_count = 0
    /\ skipped_count = 0
    /\ showtimes_data = <<>>
    /\ date_in = <<>>
    /\ time_in = <<>>
    /\ today_in = ClockDates[1]
    /\ outcome = NotCalled
    /\ cstore = <<>>
    /\ wlock = 0
    /\ cpc = <<>>
    /\ cbatch = <<>>
    /\ cidx = <<>>
    /\ pending = <<>>
    /\ ccounts = <<>>
    /\ out_env = Writable
    /\ html_ret = NotRun
    /\ html_prev = NotRun
    /\ html_file = NoFile
    /\ json_ret = NotRun
    /\ json_file = NoFile
    /\ document = <<>>
    /\ allShowtimes = <<>>
    /\ dialog = Closed

SiteNext == GenerateHtml

SpecSite == SiteInit /\ [][SiteNext]_vars

\* the tables of the output runs: none, one showing, two showings
OutStores == { RowsAt({}), RowsAt({1}), RowsAt({1, 3}) }

OutInit ==
    /\ clock = 1
    /\ store \in OutStores
    /\ pc = "idle"
    /\ results = <<>>
    /\ completed = <<>>
    /\ batch = <<>>
    /\ inserted_count = 0
    /\ skipped_count = 0
    /\ showtimes_data = <<>>
    /\ date_in = <<>>
    /\ time_in = <<>>
    /\ today_in = ClockDates[1]
    /\ outcome = NotCalled
    /\ cstore = <<>>
    /\ wlock = 0
    /\ cpc = <<>>
    /\ cbatch = <<>>
    /\ cidx = <<>>
    /\ pending = <<>>
    /\ ccounts = <<>>
    /\ out_env \in OutEnvs
    /\ html_ret = NotRun
    /\ html_prev = NotRun
    /\ html_file = NoFile
    /\ json_ret = NotRun
    /\ json_file = NoFile
    /\ document = <<>>
    /\ allShowtimes = <<>>
    /\ dialog = Closed

OutNext ==
    \/ GenerateHtml
    \/ GenerateJson
    \/ \E env \in OutEnvs : SetEnv(env)

SpecOut == OutInit /\ [][OutNext]_vars

(***************************************************************************)
(* Properties of the generated page                                        *)
(***************************************************************************)

\* the last generate_html call built a page and wrote it
PageWritten == html_ret.tag = "return" /\ html_ret.val

\* the display date under which a stored row is grouped
GroupDate(row) == date_with_year(Strip(row.date), row.formatted_datetime)

\* the by-day part of a page has a day d that shows the row
ShownOn(page, d, row) ==
    \E k \in 1..Len(page.by_day) :
        /\ page.by_day[k].date = d
        /\ \E j \in 1..Len(page.by_day[k].movies) :
              /\ page.by_day[k].movies[j].title = Strip(row.title)
              /\ page.by_day[k].movies[j].time = Strip(row.time)
              /\ page.by_day[k].movies[j].cinema = Strip(row.cinema)
              /\ page.by_day[k].movies[j].formatted_datetime = row.formatted_datetime

\* no day of the by-day part and no option of the day filter is d
DayAbsent(page, d) ==
    /\ \A k \in 1..Len(page.by_day) : page.by_day[k].date # d
    /\ \A k \in 1..Len(page.options) : page.options[k] # d

\* "Sun, Jun 1, 2025"
SunJun1Of2025 == <<"S", "u", "n", ",", " ", "J", "u", "n", " ", "1", ",", " ", "2", "0", "2", "5">>

\* C14: in a page generate_html has written on the day D, a group whose display date
\* is a calendar date before D is absent from the by-day output, and a group whose
\* date is D or later is present with its records
C14_DateFilter ==
    PageWritten =>
        \A k \in 1..Len(store) :
            strptime_aby(GroupDate(store[k])).tag = "ok" =>
                IF DateLess(strptime_aby(GroupDate(store[k])).val, Today)
                THEN DayAbsent(html_ret.page, GroupDate(store[k]))
                ELSE ShownOn(html_ret.page, GroupDate(store[k]), store[k])

\* on 2025-06-01 the table holds a showing of 2025-05-31 and one of 2025-06-01, and
\* the page written has the one day "Sun, Jun 1, 2025"
C14_Witness ==
    /\ PageWritten
    /\ Today = Date(2025, 6, 1)
    /\ Len(store) = 2
    /\ store[1].date = DSatMay31
    /\ store[2].date = DSunJun1
    /\ Len(html_ret.page.by_day) = 1
    /\ html_ret.page.by_day[1].date = SunJun1Of2025
    /\ html_ret.page.options = <<SunJun1Of2025>>

RECURSIVE Flat(_)
\* the movie elements of the groups of a part, in the order of the page
Flat(groups) ==
    IF Len(groups) = 0 THEN <<>> ELSE groups[1].movies \o Flat(Tail(groups))

\* the movie elements of a page: the by-day part, then the by-movie part
Elements(page) == Flat(page.by_day) \o Flat(page.by_title)

\* "movie-heat-2-2", "movie-heat-2-4"
MovieHeat2No2 == <<"m", "o", "v", "i", "e", "-", "h", "e", "a", "t", "-", "2", "-", "2">>
MovieHeat2No4 == <<"m", "o", "v", "i", "e", "-", "h", "e", "a", "t", "-", "2", "-", "4">>

\* C15: the n-th movie element of a written page, counting the by-date entries and
\* then the by-title entries from 1, has the identifier movie-<slug of its title>-<n>,
\* and no two elements share an identifier
C15_MovieIds ==
    PageWritten =>
        /\ \A n \in 1..Len(Elements(html_ret.page)) :
              Elements(html_ret.page)[n].id
                = MoviePrefix \o slugify(Elements(html_ret.page)[n].title)
                    \o <<"-">> \o NatStr(n)
        /\ \A a, b \in 1..Len(Elements(html_ret.page)) :
              a # b => Elements(html_ret.page)[a].id # Elements(html_ret.page)[b].id

\* a page with two by-date entries and two by-title entries, "Heat 2!" being the
\* second and the fourth element
C15_Witness ==
    /\ PageWritten
    /\ Len(Flat(html_ret.page.by_day)) = 2
    /\ Len(Flat(html_ret.page.by_title)) = 2
    /\ Elements(html_ret.page)[2].title = TitleHeat2
    /\ Elements(html_ret.page)[2].id = MovieHeat2No2
    /\ Elements(html_ret.page)[4].id = MovieHeat2No4

C19_GroupingTotal == html_ret.tag # "raise"

\* a row of the table is grouped under a display date that is no calendar date
Unparseable(row) == strptime_aby(GroupDate(row)).tag # "ok"

\* C20: after generate_html has run on a table with a row whose display date cannot
\* be parsed, the group is retained and the row appears in the by-day output
C20_UnparseableShown ==
    html_ret.tag # "none" =>
        \A k \in 1..Len(store) :
            Unparseable(store[k])
                => /\ PageWritten
                   /\ ShownOn(html_ret.page, GroupDate(store[k]), store[k])

\* the table holds something to write and the output cannot be written
CannotWrite == out_env # Writable /\ store # <<>>

\* C18: when the output cannot be written, generate_json and generate_html return
\* False instead of raising and leave the output file as it was
C18_WriteFailureReported ==
    [][ CannotWrite =>
          /\ (json_ret' # json_ret \/ json_file' # json_file)
                => /\ json_ret' = Returned(FALSE, <<>>)
                   /\ json_file'.exists = json_file.exists
                   /\ json_file'.content = json_file.content
          /\ (html_ret' # html_ret \/ html_file' # html_file)
                => /\ html_ret' = Returned(FALSE, <<>>)
                   /\ html_file'.exists = html_file.exists
                   /\ html_file'.content = html_file.content ]_vars

\* the canonical timestamp of a row gives no year (lines 161-166 take the fallback)
Yearless(row) == strptime_stamp(row.formatted_datetime).tag # "ok"

\* C21: after generate_html has run on any day, every row of the table whose
\* canonical timestamp gives no year is in a by-date group that the by-day output
\* shows
C21_YearlessShown ==
    html_ret.tag # "none" =>
        \A k \in 1..Len(store) :
            Yearless(store[k])
                => /\ PageWritten
                   /\ ShownOn(html_ret.page, GroupDate(store[k]), store[k])

\* the one row "Fri, May 30 25:00", grouped under "Fri, May 30, 2025", is shown on
\* 2025-05-28 and is in no part of the page written on 2025-06-01
C21_DroppedWhenLater ==
    /\ PageWritten
    /\ Len(store) = 1
    /\ Yearless(store[1])
    /\ Today = Date(2025, 6, 1)
    /\ html_ret.page.by_day = <<>>
    /\ html_ret.page.by_title = <<>>

\* the fields of a movie element that the grouping step took from the row
Grouped(e) ==
    [title |-> e.title,
     time |-> e.time,
     cinema |-> e.cinema,
     link |-> e.link,
     formatted_datetime |-> e.formatted_datetime]

\* the texts %H and %M read
HourTexts == { NatStr(h) : h \in 0..23 } \cup { ZeroPad(h, 2) : h \in 0..9 }
MinuteTexts == { NatStr(m) : m \in 0..59 } \cup { ZeroPad(m, 2) : m \in 0..9 }

\* the last blank-separated token of a text reads H:MM
EndsInClock(fd) ==
    /\ Contains(LastToken(fd), <<":">>)
    /\ Split1(LastToken(fd), <<":">>)[1] \in HourTexts
    /\ Split1(LastToken(fd), <<":">>)[2] \in MinuteTexts

\* the sort position of a record: the moment of its canonical timestamp; without one,
\* January 1 of 2025 at the time its last token reads, or at midnight
SortMoment(fd) ==
    IF IsCanonical(fd) THEN <<StampDate(fd), StampMinutes(fd)>>
    ELSE IF EndsInClock(fd)
    THEN <<Date(2025, 1, 1),
           60 * ToNat(Split1(LastToken(fd), <<":">>)[1])
             + ToNat(Split1(LastToken(fd), <<":">>)[2])>>
    ELSE <<Date(2025, 1, 1), 0>>

\* the sort position with the one fallback: midnight of January 1 of 2025
MidnightMoment(fd) ==
    IF IsCanonical(fd) THEN <<StampDate(fd), StampMinutes(fd)>>
    ELSE <<Date(2025, 1, 1), 0>>

\* `sorted` is the list `arrival` in ascending order of the positions K gives, the
\* records of one position in the order in which they arrived
IsStableSort(sorted, arrival, K(_)) ==
    /\ Len(sorted) = Len(arrival)
    /\ \E p \in [1..Len(sorted) -> 1..Len(sorted)] :
          /\ \A i \in 1..Len(sorted) : Grouped(sorted[i]) = arrival[p[i]]
          /\ \A i, j \in 1..Len(sorted) :
                i < j =>
                  /\ p[i] # p[j]
                  /\ ~MomentLess(K(sorted[j].formatted_datetime),
                                 K(sorted[i].formatted_datetime))
                  /\ K(sorted[i].formatted_datetime) = K(sorted[j].formatted_datetime)
                        => p[i] < p[j]

\* every by-day group of a page is the stable sort under K of the records of its
\* date, as one of the lists the query may return delivers them
GroupsSortedBy(page, rows, K(_)) ==
    \E data \in site_showtimes(rows) :
        \A k \in 1..Len(page.by_day) :
            IsStableSort(page.by_day[k].movies,
                         MoviesOn(GroupByDate(<<>>, data), page.by_day[k].date), K)

C23_DatesAscending ==
    PageWritten =>
        /\ html_ret.page.options
             = [k \in 1..Len(html_ret.page.by_day) |-> html_ret.page.by_day[k].date]
        /\ \A i, j \in 1..Len(html_ret.page.options) :
              i < j => ~DateLess(strptime_aby(html_ret.page.options[j]).val,
                                 strptime_aby(html_ret.page.options[i]).val)

\* the query returns '2025-06-01 10:00' before 'Fri, May 30 25:00', and the page
\* has 'Fri, May 30, 2025' before 'Sun, Jun 1, 2025'
C23_Witness ==
    /\ PageWritten
    /\ Len(store) = 2
    /\ store[1].date = DSunJun1
    /\ store[2].formatted_datetime = DFriMay30 \o <<" ">> \o T2500
    /\ StrLess(store[1].formatted_datetime, store[2].formatted_datetime)
    /\ html_ret.page.options = <<DFriMay30Of2025, SunJun1Of2025>>
    /\ html_ret.page.by_day[1].date = DFriMay30Of2025
    /\ html_ret.page.by_day[2].date = SunJun1Of2025

\* what a visitor sees of a showing: title, time, display date and cinema
Shown(e) == <<e.title, e.time, e.date, e.cinema>>

\* the place of the first by-day element that shows what e shows
FirstShowing(page, e) ==
    CHOOSE n \in 1..Len(Flat(page.by_day)) :
        /\ Shown(Flat(page.by_day)[n]) = Shown(e)
        /\ \A j \in 1..(n - 1) : Shown(Flat(page.by_day)[j]) # Shown(e)

\* C24: in the by-title part of a written page no two entries have the same title,
\* time, display date and cinema, also when the by-date groups hold such duplicates;
\* an entry is the first by-day occurrence of its showing (its link and timestamp)
\* and carries the display date of the group that occurrence is in
C24_ByTitleDistinct ==
    PageWritten =>
        /\ \A a, b \in 1..Len(Flat(html_ret.page.by_title)) :
              a # b => Shown(Flat(html_ret.page.by_title)[a])
                         # Shown(Flat(html_ret.page.by_title)[b])
        /\ \A a \in 1..Len(Flat(html_ret.page.by_title)) :
              /\ \E n \in 1..Len(Flat(html_ret.page.by_day)) :
                    Shown(Flat(html_ret.page.by_day)[n])
                      = Shown(Flat(html_ret.page.by_title)[a])
              /\ Grouped(Flat(html_ret.page.by_title)[a])
                   = Grouped(Flat(html_ret.page.by_day)
                               [FirstShowing(html_ret.page,
                                             Flat(html_ret.page.by_title)[a])])

\* the table holds the same showing of Dune under two links; the by-day group has
\* both, the by-title part has one entry, with the link of the first
C24_Witness ==
    /\ PageWritten
    /\ Len(store) = 2
    /\ store[1].link # store[2].link
    /\ Len(Flat(html_ret.page.by_day)) = 2
    /\ Shown(Flat(html_ret.page.by_day)[1]) = Shown(Flat(html_ret.page.by_day)[2])
    /\ Flat(html_ret.page.by_day)[1].link # Flat(html_ret.page.by_day)[2].link
    /\ Len(Flat(html_ret.page.by_title)) = 1
    /\ Flat(html_ret.page.by_title)[1].link = Flat(html_ret.page.by_day)[1].link
    /\ Flat(html_ret.page.by_title)[1].date = DFriMay30Of2025

\* C29: in a written page every by-title entry has the title, time, display date
\* and cinema of some by-day entry, every by-day entry has exactly one by-title
\* entry showing the same, and no by-title entry has a display date before today
C29_ByTitleFromByDay ==
    PageWritten =>
        /\ \A a \in 1..Len(Flat(html_ret.page.by_title)) :
              /\ \E n \in 1..Len(Flat(html_ret.page.by_day)) :
                    Shown(Flat(html_ret.page.by_day)[n])
                      = Shown(Flat(html_ret.page.by_title)[a])
              /\ strptime_aby(Flat(html_ret.page.by_title)[a].date).tag = "ok"
              /\ ~DateLess(strptime_aby(Flat(html_ret.page.by_title)[a].date).val, Today)
        /\ \A n \in 1..Len(Flat(html_ret.page.by_day)) :
              Cardinality({ a \in 1..Len(Flat(html_ret.page.by_title)) :
                              Shown(Flat(html_ret.page.by_title)[a])
                                = Shown(Flat(html_ret.page.by_day)[n]) }) = 1

\* on 2025-06-01 the table holds 'Heat 2!' of 2025-05-31 and Dune of 2025-06-01; the
\* by-day part and the by-title part both have the one entry of Dune
C29_Witness ==
    /\ PageWritten
    /\ Today = Date(2025, 6, 1)
    /\ Len(store) = 2
    /\ store[1].title = TitleHeat2
    /\ store[1].date = DSatMay31
    /\ store[2].title = TitleDune
    /\ Len(Flat(html_ret.page.by_day)) = 1
    /\ Len(Flat(html_ret.page.by_title)) = 1
    /\ Flat(html_ret.page.by_title)[1].title = TitleDune
    /\ Shown(Flat(html_ret.page.by_title)[1]) = Shown(Flat(html_ret.page.by_day)[1])

\* C28: the batch get_movie_showtimes returns never holds two records with the same
\* (title, date, time, cinema, link)
C28_BatchKeysDistinct ==
    \A a, b \in 1..Len(batch) :
        a # b => NaturalKey(batch[a]) # NaturalKey(batch[b])

\* the page of Heat lists 'Today' '9:20pm - Cinema Two' twice and the day changes
\* between the two calls of format_datetime: the batch holds the showing twice, as
\* '2025-05-28 21:20' and as '2025-06-01 21:20'
C28_TwiceInBatch ==
    /\ pc = "merged"
    /\ Len(batch) = 2
    /\ NaturalKey(batch[1]) = NaturalKey(batch[2])
    /\ batch[1].date = DToday
    /\ batch[1].formatted_datetime # batch[2].formatted_datetime

\* the places of the batch whose key is in the table before the call or at an
\* earlier place of the batch
AlreadyPresent(rows, showtimes) ==
    { k \in 1..Len(showtimes) :
        \/ NaturalKey(showtimes[k]) \in KeySet(rows)
        \/ \E j \in 1..(k - 1) : NaturalKey(showtimes[j]) = NaturalKey(showtimes[k]) }

\* C26: a call of save_to_database returns counters whose sum is the length of the
\* batch; inserted is the number of natural keys the call added to the table and
\* skipped the number of records whose key was present when they were attempted
C26_CountersExact ==
    [][ (pc = "merged" /\ pc' = "saved") =>
          /\ inserted_count' + skipped_count' = Len(batch)
          /\ inserted_count' = Cardinality(KeySet(store') \ KeySet(store))
          /\ inserted_count' = Len(store') - Len(store)
          /\ skipped_count' = Cardinality(AlreadyPresent(store, batch)) ]_vars

\* a batch of two records with one natural key was saved to a table without the
\* key: the first record was inserted, the second skipped
C26_Witness ==
    /\ pc = "saved"
    /\ Len(batch) = 2
    /\ NaturalKey(batch[1]) = NaturalKey(batch[2])
    /\ inserted_count = 1
    /\ skipped_count = 1

RECURSIVE Concat(_)
\* the lists of a list, one after the other
Concat(lists) == IF Len(lists) = 0 THEN <<>> ELSE lists[1] \o Concat(Tail(lists))

\* C27: on every table and day, saving the list a fetch returns leaves the rows that
\* saving all dicts of its page would leave, and saving the batch that
\* get_movie_showtimes merges leaves the rows that saving the plain concatenation of
\* the fetch results would leave; Save then writes the rows of the batch
C27_DedupIsOptimization ==
    [][ /\ \A i \in Movie, response \in PadResponses, left \in ElementsLeft :
              ( /\ pc = "fetching"
                /\ results'[i] # results[i]
                /\ left <= TimeCount(response.page)
                /\ results'[i] = fetch_result(movie_links[i], response, Today, Later, left) )
              => save_to_database(store, results'[i].value, Today).rows
                   = save_to_database(store,
                                      PageEntries(movie_links[i], response.page,
                                                  Today, Later, left),
                                      Today).rows
        /\ (pc = "fetching" /\ pc' = "merged")
              => \A k \in 1..Len(ClockDates) :
                    save_to_database(store, batch', ClockDates[k]).rows
                      = save_to_database(store,
                                         Concat(Values(ResultsInOrder(results, completed))),
                                         ClockDates[k]).rows
        /\ (pc = "merged" /\ pc' = "saved")
              => store' = save_to_database(store, batch, Today).rows ]_vars

\* a page lists its one showing twice and is read on one day: the batch holds it once
\* and the table has the one row
C27_Witness ==
    /\ pc = "saved"
    /\ Len(batch) = 1
    /\ batch[1].date = DToday
    /\ inserted_count = 1
    /\ skipped_count = 0
    /\ Len(store) = 1
    /\ store[1].formatted_datetime = batch[1].formatted_datetime

RECURSIVE AllTimes(_)
\* the texts of the .time elements of a page
AllTimes(page) == IF Len(page) = 0 THEN <<>> ELSE page[1].times \o AllTimes(Tail(page))

\* the .time texts of a page as the scraper reads them: trimmed as a whole
TrimmedTexts(page) == { Strip(t) : t \in Range(AllTimes(page)) }

\* "Cinema Two" and " Cinema Two"
CinemaTwo == <<"C", "i", "n", "e", "m", "a", " ", "T", "w", "o">>
CinemaTwoPadded == <<" ">> \o CinemaTwo

\* C25: a fetch returns as many natural keys as its page (of one date) has .time
\* texts that differ after the trim of the element text, so two texts that differ in
\* blanks before the cinema give two keys and two texts that differ in blanks at the
\* end give one; the merge keeps every key and save_to_database stores one row per key
C25_PaddedCinemaDistinct ==
    [][ /\ \A i \in Movie, response \in PadResponses, left \in ElementsLeft :
              ( /\ pc = "fetching"
                /\ results'[i] # results[i]
                /\ left <= TimeCount(response.page)
                /\ results'[i] = fetch_result(movie_links[i], response, Today, Later, left) )
              => Cardinality(KeySet(results'[i].value))
                   = Cardinality(TrimmedTexts(response.page))
        /\ (pc = "fetching" /\ pc' = "merged")
              => KeySet(batch') = UNION { KeySet(results[i].value) : i \in Movie }
        /\ (pc = "merged" /\ pc' = "saved")
              => /\ KeySet(store') = KeySet(store) \cup KeySet(batch)
                 /\ Len(store') = Cardinality(KeySet(store')) ]_vars

\* the table holds two rows of one showing that differ only in the cinema,
\* 'Cinema Two' and ' Cinema Two'
C25_Witness ==
    /\ pc = "saved"
    /\ Len(batch) = 2
    /\ Len(store) = 2
    /\ store[1].cinema = CinemaTwo
    /\ store[2].cinema = CinemaTwoPadded
    /\ store[1].title = store[2].title
    /\ store[1].date = store[2].date
    /\ store[1].time = store[2].time
    /\ store[1].link = store[2].link
    /\ store[1].formatted_datetime = store[2].formatted_datetime

(***************************************************************************)
(* The script of the page: allShowtimes and showOtherTimes                 *)
(***************************************************************************)

\* the order of the characters in the root collation localeCompare uses: blanks,
\* punctuation, symbols, digits, letters
LocaleAlphabet ==
    <<" ", "_", "-", ",", ":", "!", ".", "(", ")", "/", "|",
      "0", "1", "2", "3", "4", "5", "6", "7", "8", "9",
      "a", "b", "c", "d", "e", "f", "g", "h", "i", "j", "k", "l", "m",
      "n", "o", "p", "q", "r", "s", "t", "u", "v", "w", "x", "y", "z">>

\* the primary weight of a character: its place in the alphabet, the case set aside
LocaleRank ==
    [c \in DOMAIN OrdMap |->
        CHOOSE k \in 1..Len(LocaleAlphabet) : LocaleAlphabet[k] = LowerChar(c)]

RECURSIVE PrimaryCompare(_, _)
\* the comparison of the primary weights: -1, 0 or 1
PrimaryCompare(a, b) ==
    IF Len(a) = 0 /\ Len(b) = 0 THEN 0
    ELSE IF Len(a) = 0 THEN -1
    ELSE IF Len(b) = 0 THEN 1
    ELSE IF LocaleRank[a[1]] < LocaleRank[b[1]] THEN -1
    ELSE IF LocaleRank[a[1]] > LocaleRank[b[1]] THEN 1
    ELSE PrimaryCompare(Tail(a), Tail(b))

RECURSIVE CaseCompare(_, _)
\* texts of equal primary weights: at the first difference the lower case is first
CaseCompare(a, b) ==
    IF Len(a) = 0 THEN 0
    ELSE IF a[1] = b[1] THEN CaseCompare(Tail(a), Tail(b))
    ELSE IF a[1] = LowerChar(a[1]) THEN -1
    ELSE 1

\* a.localeCompare(b), line 817
localeCompare(a, b) ==
    IF PrimaryCompare(a, b) # 0 THEN PrimaryCompare(a, b) ELSE CaseCompare(a, b)

\* line 868: {time, date, cinema, id, formatted_datetime}
ShowtimeOf(el) ==
    [time |-> el.time,
     date |-> el.date,
     cinema |-> el.cinema,
     id |-> el.id,
     formatted_datetime |-> el.formatted_datetime]

\* line 857: an attribute is missing or empty
MissingData(el) == el.title = <<>> \/ el.time = <<>> \/ el.date = <<>> \/ el.cinema = <<>>

\* line 863: `${title}|${time}|${date}|${cinema}`
ElementKey(el) ==
    el.title \o <<"|">> \o el.time \o <<"|">> \o el.date \o <<"|">> \o el.cinema

\* lines 867-868: allShowtimes[title].push(st), the list being made when it is missing
Push(all, title, st) ==
    IF title \in DOMAIN all
    THEN [t \in DOMAIN all |-> IF t = title THEN Append(all[t], st) ELSE all[t]]
    ELSE [t \in DOMAIN all \cup {title} |-> IF t = title THEN <<st>> ELSE all[t]]

RECURSIVE BuildAllShowtimes(_, _, _)
\* lines 846-871: the loop over the elements that have data-movie-title
BuildAllShowtimes(all, seen, els) ==
    IF Len(els) = 0 THEN all
    ELSE IF MissingData(els[1]) \/ ElementKey(els[1]) \in seen
    THEN BuildAllShowtimes(all, seen, Tail(els))
    ELSE BuildAllShowtimes(Push(all, els[1].title, ShowtimeOf(els[1])),
                           seen \cup {ElementKey(els[1])}, Tail(els))

RECURSIVE InsertByStamp(_, _)
InsertByStamp(sorted, x) ==
    IF Len(sorted) = 0 THEN <<x>>
    ELSE IF localeCompare(x.formatted_datetime, sorted[1].formatted_datetime) < 0
    THEN <<x>> \o sorted
    ELSE <<sorted[1]>> \o InsertByStamp(Tail(sorted), x)

RECURSIVE SortByStamp(_, _)
\* lines 815-818: Array.prototype.sort with the comparator; the sort is stable
SortByStamp(sorted, sts) ==
    IF Len(sts) = 0 THEN sorted
    ELSE SortByStamp(InsertByStamp(sorted, sts[1]), Tail(sts))

\* line 822: `${st.time}-${st.date}-${st.cinema}`
OtherKey(st) == st.time \o <<"-">> \o st.date \o <<"-">> \o st.cinema

\* no showtime taken for the current one
IsCurrentNever(st, time, date, cinema) == FALSE

\* line 826
IsCurrent(st, time, date, cinema) ==
    st.time = time /\ st.date = date /\ st.cinema = cinema

RECURSIVE Listed(_, _, _, _, _)
\* lines 820-834: the links of the list
Listed(seen, sts, time, date, cinema) ==
    IF Len(sts) = 0 THEN <<>>
    ELSE IF OtherKey(sts[1]) \in seen \/ IsCurrent(sts[1], time, date, cinema)
    THEN Listed(seen, Tail(sts), time, date, cinema)
    ELSE <<sts[1]>>
         \o Listed(seen \cup {OtherKey(sts[1])}, Tail(sts), time, date, cinema)

\* the dialog after showOtherTimes(title, time, date, cinema, id) has filled it
Opened(title, time, date, cinema, id, sts) ==
    [open |-> TRUE,
     title |-> title,
     current |-> [time |-> time, date |-> date, cinema |-> cinema, id |-> id],
     list |-> Listed({}, sts, time, date, cinema)]

\* lines 813-818: the list of the title is sorted in place
SortedIn(all, title) ==
    [t \in DOMAIN all |-> IF t = title THEN SortByStamp(<<>>, all[t]) ELSE all[t]]

\* the browser loads the file generate_html wrote; DOMContentLoaded runs the
\* handler of lines 845-872
LoadPage ==
    /\ html_file.exists
    /\ html_file.content # Truncated
    /\ document' = Elements(html_file.content)
    /\ allShowtimes' = BuildAllShowtimes(<<>>, {}, Elements(html_file.content))
    /\ dialog' = Closed
    /\ UNCHANGED <<pipeVars, normVars, concVars, genVars>>

\* a click on "Show Other Times" of the n-th movie element: showOtherTimes with the
\* texts of the element (lines 1053, 1089), lines 806-841
ShowOtherTimes(n) ==
    /\ n \in 1..Len(document)
    /\ allShowtimes' = IF document[n].title \in DOMAIN allShowtimes
                       THEN SortedIn(allShowtimes, document[n].title)
                       ELSE allShowtimes
    /\ dialog' = Opened(document[n].title, document[n].time, document[n].date,
                        document[n].cinema, document[n].id,
                        IF document[n].title \in DOMAIN allShowtimes
                        THEN SortByStamp(<<>>, allShowtimes[document[n].title])
                        ELSE <<>>)
    /\ UNCHANGED document
    /\ UNCHANGED <<pipeVars, normVars, concVars, genVars>>

\* the rows of the catalogue of the titles "Dune" and "Heat" on "Fri, May 30" and
\* "Sun, Jun 1" whose cinema has no blanks around it
ClientRows ==
    { k \in 1..Len(Catalogue) :
        /\ Catalogue[k].title \in {TitleDune, TitleHeat}
        /\ Catalogue[k].date \in {DFriMay30, DSunJun1}
        /\ Catalogue[k].cinema = Strip(Catalogue[k].cinema) }

\* tables of these rows, one row more than MaxRows at most
ClientStores ==
    { RowsAt(S) : S \in { T \in SUBSET ClientRows : Cardinality(T) <= MaxRows + 1 } }

ClientInit ==
    /\ clock \in 1..Len(ClockDates)
    /\ store \in ClientStores
    /\ pc = "idle"
    /\ results = <<>>
    /\ completed = <<>>
    /\ batch = <<>>
    /\ inserted_count = 0
    /\ skipped_count = 0
    /\ showtimes_data = <<>>
    /\ date_in = <<>>
    /\ time_in = <<>>
    /\ today_in = ClockDates[1]
    /\ outcome = NotCalled
    /\ cstore = <<>>
    /\ wlock = 0
    /\ cpc = <<>>
    /\ cbatch = <<>>
    /\ cidx = <<>>
    /\ pending = <<>>
    /\ ccounts = <<>>
    /\ out_env = Writable
    /\ html_ret = NotRun
    /\ html_prev = NotRun
    /\ html_file = NoFile
    /\ json_ret = NotRun
    /\ json_file = NoFile
    /\ document = <<>>
    /\ allShowtimes = <<>>
    /\ dialog = Closed

ClientNext ==
    \/ GenerateHtml
    \/ LoadPage
    \/ \E n \in 1..(2 * (MaxRows + 1)) : ShowOtherTimes(n)

SpecClient == ClientInit /\ [][ClientNext]_vars

\* the place of the first element of the document that shows title, time, date and
\* cinema
FirstElement(title, st) ==
    CHOOSE n \in 1..Len(document) :
        /\ Shown(document[n]) = <<title, st.time, st.date, st.cinema>>
        /\ \A j \in 1..(n - 1) :
              Shown(document[j]) # <<title, st.time, st.date, st.cinema>>

\* allShowtimes holds every (title, time, date, cinema) of the document once, with
\* the identifier and timestamp of its first element
HeldOnce ==
    /\ \A n \in 1..Len(document) :
          /\ document[n].title \in DOMAIN allShowtimes
          /\ Cardinality({ k \in 1..Len(allShowtimes[document[n].title]) :
                             /\ allShowtimes[document[n].title][k].time = document[n].time
                             /\ allShowtimes[document[n].title][k].date = document[n].date
                             /\ allShowtimes[document[n].title][k].cinema
                                  = document[n].cinema }) = 1
    /\ \A t \in DOMAIN allShowtimes :
          \A k \in 1..Len(allShowtimes[t]) :
              /\ \E n \in 1..Len(document) :
                    Shown(document[n])
                      = <<t, allShowtimes[t][k].time, allShowtimes[t][k].date,
                          allShowtimes[t][k].cinema>>
              /\ allShowtimes[t][k]
                   = ShowtimeOf(document[FirstElement(t, allShowtimes[t][k])])

\* the list of the dialog: showtimes of the title, none of them the current one, no
\* two the same, in ascending order of their timestamps
ListedOthers ==
    /\ \A k \in 1..Len(dialog.list) :
          /\ dialog.title \in DOMAIN allShowtimes
          /\ dialog.list[k] \in Range(allShowtimes[dialog.title])
          /\ <<dialog.list[k].time, dialog.list[k].date, dialog.list[k].cinema>>
               # <<dialog.current.time, dialog.current.date, dialog.current.cinema>>
    /\ \A j, k \in 1..Len(dialog.list) :
          j < k =>
            /\ <<dialog.list[j].time, dialog.list[j].date, dialog.list[j].cinema>>
                 # <<dialog.list[k].time, dialog.list[k].date, dialog.list[k].cinema>>
            /\ localeCompare(dialog.list[j].formatted_datetime,
                             dialog.list[k].formatted_datetime) <= 0
            /\ (IsCanonical(dialog.list[j].formatted_datetime)
                  /\ IsCanonical(dialog.list[k].formatted_datetime))
                  => NotAfter(dialog.list[j].formatted_datetime,
                              dialog.list[k].formatted_datetime)

\* C30: once the page is loaded, allShowtimes holds each (title, time, date, cinema)
\* of the movie elements once, with the identifier of its first element in document
\* order; the list showOtherTimes shows never has the showtime it was called for,
\* has no showtime twice, and is in ascending order of the canonical timestamps
C30_ShowOtherTimes ==
    /\ HeldOnce
    /\ dialog.open => ListedOthers

\* the page shows Dune at '25:00' and at '2:00pm' on 'Fri, May 30, 2025' and at
\* '10:00am' on 'Sun, Jun 1, 2025'; the click on the last lists the other two, the
\* one with the timestamp '2025-05-30 14:00' first, against the order of the page
C30_Witness ==
    /\ dialog.open
    /\ Len(document) = 6
    /\ document[1].time = T2500
    /\ document[2].time = T200pm
    /\ dialog.title = TitleDune
    /\ dialog.current.date = SunJun1Of2025
    /\ dialog.current.id = document[6].id
    /\ Len(allShowtimes[TitleDune]) = 3
    /\ Len(dialog.list) = 2
    /\ dialog.list[1].id = document[2].id
    /\ dialog.list[1].formatted_datetime = StampMay30At1400
    /\ dialog.list[2].id = document[1].id
    /\ dialog.list[2].time = T2500

====
